---- MODULE Spec2Model ----
(***************************************************************************)
(* Orchestration core of the video-analytics service: the Scenario store,  *)
(* the outbox table, the Orchestrator's API operations, its dispatch loop  *)
(* (_event_processor_loop / _process_outbox_events), its recovery loop     *)
(* (_retry_consumer_loop / _handle_retry_message), the Kafka client and    *)
(* the runner pool.  Every Store operation of the source opens its own     *)
(* session and commits it, so every Store operation is one atomic step.    *)
(***************************************************************************)
EXTENDS Integers, Sequences, FiniteSets, Bags, TLC

\* ------------------------------------------------------------------ bounds
MaxScenarios == 2
MaxEvents == 2
MaxClock == 1
MaxIterations == 2
MaxRetryMessages == 1
MaxCrashes == 1
MaxCalls == 2
MaxRows == 3
MaxLaunches == 2
MaxExits == 2
MaxMessages == 2
MaxWrites == 1

\* ------------------------------------------------------- program constants
PoolSize == 5
max_retries == 5
retry_delay == 2
OutboxBatchLimit == 10

INIT_STARTUP == "init_startup"
INIT_STARTUP_PROCESSING == "init_startup_processing"
ACTIVE == "active"
INIT_SHUTDOWN == "init_shutdown"
IN_SHUTDOWN_PROCESSING == "in_shutdown_processing"
INACTIVE == "inactive"

ScenarioStatus ==
  {INIT_STARTUP, INIT_STARTUP_PROCESSING, ACTIVE, INIT_SHUTDOWN,
   IN_SHUTDOWN_PROCESSING, INACTIVE}

\* Python's None for an optional status argument.
None == "None"

\* Statuses an API caller sends in the behaviours explored here.
ApiStatuses == {None, ACTIVE}

\* The orchestrator instances whose dispatch loops may share the Store;
\* an instance that was never deployed has dpc = "absent".
Instances == {1, 2}

VARIABLES
  scenarios,      \* Store: scenario id -> [status]
  outbox,         \* Store: sequence of OutboxEvent rows, row i has id i
  now,            \* last reading of the wall clock (created_at / processed_at)
  published,      \* broker: event id -> number of confirmed publishes
  mutations,      \* history: bag of committed Scenario mutations
  lifecycle,      \* "constructed" | "running" | stop steps | "stopped" | "closed"
  running,        \* Orchestrator._running
  producer,       \* KafkaClient.producer is not None
  connected,      \* KafkaClient.connected
  eventQueue,     \* Orchestrator._event_queue
  api,            \* the API call in flight, and the last response
  dpc,            \* dispatch loop position, per instance
  batch,          \* events returned by the last poll, per instance
  cursor,         \* index in batch of the event being handled
  iteration,      \* iteration counter of _event_processor_loop
  retryTopic,     \* broker: log of the recovery channel
  retryPos,       \* position of the recovery consumer in retryTopic
  rpc,            \* recovery loop position
  rmsg,           \* recovery loop locals: the message handled, or the attempt
  runners,        \* RunnerPool.runners (tracked runner ids)
  nextRunner,     \* number of runner ids generated so far
  live,           \* runner ids whose process is running (poll() is None)
  stopIds,        \* stop_all_runners: ids of its snapshot not yet removed
  wtopic,         \* broker: messages of topic scenarios delivered to the worker
  wpos,           \* position of the worker's consumer in wtopic
  worker,         \* the worker process: [pc, scenario_id, reason, result]
  predicts,       \* Store: ids of the Scenario rows whose predict was written
  crashes,        \* number of process crashes so far
  calls           \* direct OutboxManager calls: [op, arg, result, events]

vars ==
  <<scenarios, outbox, now, published, mutations, lifecycle, running,
    producer, connected, eventQueue, api, dpc, batch, cursor, iteration,
    retryTopic, retryPos, rpc, rmsg, runners, nextRunner, live, stopIds,
    wtopic, wpos, worker, predicts, crashes, calls>>

storeVars == <<scenarios, outbox, published, mutations>>
kafkaVars == <<producer, connected>>
dispatchVars == <<dpc, batch, cursor, iteration>>
recoveryVars == <<retryTopic, retryPos, rpc, rmsg>>
poolVars == <<runners, nextRunner, live, stopIds>>
workerVars == <<wtopic, wpos, worker, predicts>>

\* ------------------------------------------------------------ Store rows

\* OutboxEvent(...) as built by OutboxManager.create_event; processed_at is
\* a sequence of length 0 (NULL) or 1.
OutboxEvent(id, scenario_id, event_type, event_data, topic, created_at) ==
  [id |-> id, scenario_id |-> scenario_id, event_type |-> event_type,
   event_data |-> event_data, topic |-> topic, processed |-> FALSE,
   created_at |-> created_at, processed_at |-> <<>>]

\* OutboxManager.create_event: insert one unprocessed row, id autoincrement.
CreateEvent(ob, scenario_id, event_type, event_data, topic, t) ==
  Append(ob, OutboxEvent(Len(ob) + 1, scenario_id, event_type, event_data,
                         topic, t))

\* The committed Scenario mutation a row of the outbox describes.
Mutation(scenario_id, event_type, event_data) ==
  [scenario_id |-> scenario_id, event_type |-> event_type,
   event_data |-> event_data]

Min(a, b) == IF a < b THEN a ELSE b

\* Mutant of Unprocessed: the WHERE clause is missing.
Unprocessed_NoFilter(ob) == DOMAIN ob

\* WHERE processed == False
Unprocessed(ob) == {i \in DOMAIN ob : ob[i].processed = FALSE}

\* ORDER BY created_at: every arrangement of the rows S of ob that is
\* non-decreasing in created_at (SQL leaves the order of ties open).
OrderByCreatedAt(ob, S) ==
  {s \in [1..Cardinality(S) -> S] :
     /\ \A i, j \in 1..Cardinality(S) : i # j => s[i] # s[j]
     /\ \A i, j \in 1..Cardinality(S) :
          i < j => ob[s[i]].created_at <= ob[s[j]].created_at}

\* Mutant of GetUnprocessedEvents: ORDER BY id DESC instead of created_at.
GetUnprocessedEvents_NewestIdFirst(ob, limit) ==
  {SubSeq([k \in 1..Cardinality(Unprocessed(ob)) |-> ob[s[k]]], 1,
          Min(limit, Cardinality(Unprocessed(ob)))) :
     s \in {t \in [1..Cardinality(Unprocessed(ob)) -> Unprocessed(ob)] :
              \A i, j \in 1..Cardinality(Unprocessed(ob)) :
                i < j => t[i] > t[j]}}

\* OutboxManager.get_unprocessed_events(limit): the possible results.
GetUnprocessedEvents(ob, limit) ==
  {SubSeq([k \in 1..Cardinality(Unprocessed(ob)) |-> ob[s[k]]], 1,
          Min(limit, Cardinality(Unprocessed(ob)))) :
     s \in OrderByCreatedAt(ob, Unprocessed(ob))}

\* Mutant of MarkAsProcessed: the UPDATE is never committed.
MarkAsProcessed_NoCommit(ob, event_id, t) == ob

\* Mutant of MarkAsProcessed: the UPDATE has no WHERE clause.
MarkAsProcessed_NoWhere(ob, event_id, t) ==
  [i \in DOMAIN ob |->
     [ob[i] EXCEPT !.processed = TRUE, !.processed_at = <<t>>]]

\* OutboxManager.mark_as_processed(event_id): the table after the UPDATE.
MarkAsProcessed(ob, event_id, t) ==
  [i \in DOMAIN ob |->
     IF ob[i].id = event_id
       THEN [ob[i] EXCEPT !.processed = TRUE, !.processed_at = <<t>>]
       ELSE ob[i]]

\* Mutant of MarkAsProcessedResult: only rows still unprocessed are matched.
MarkAsProcessedResult_OnlyUnprocessed(ob, event_id) ==
  \E i \in DOMAIN ob : ob[i].id = event_id /\ ~ob[i].processed

\* OutboxManager.mark_as_processed(event_id): result.rowcount > 0.
MarkAsProcessedResult(ob, event_id) == \E i \in DOMAIN ob : ob[i].id = event_id

\* ScenarioCRUD.update_status: the table after the UPDATE.
\* An update_status that leaves a Scenario that is inactive as it is.
UpdateStatus_InactiveTerminal(sc, scenario_id, status) ==
  [i \in DOMAIN sc |->
     IF i = scenario_id /\ sc[i].status # INACTIVE
       THEN [sc[i] EXCEPT !.status = status] ELSE sc[i]]

\* UPDATE scenarios SET status = :status WHERE id = :scenario_id
UpdateStatus(sc, scenario_id, status) ==
  [i \in DOMAIN sc |->
     IF i = scenario_id THEN [sc[i] EXCEPT !.status = status] ELSE sc[i]]

\* ScenarioCRUD.update_status: result.rowcount > 0.
\* result.rowcount > 0
UpdateStatusResult(sc, scenario_id) == scenario_id \in DOMAIN sc

\* status or ScenarioStatus.INIT_STARTUP
\* A create_scenario that ignores the status it is given.
StatusOrDefault_Ignored(status) == INIT_STARTUP

\* status or ScenarioStatus.INIT_STARTUP
StatusOrDefault(status) == IF status = None THEN INIT_STARTUP ELSE status

\* The worker process has consumed no message yet / is between messages.
WorkerConsuming ==
  [pc |-> "consuming", scenario_id |-> 0, reason |-> "none",
   result |-> "none"]

\* No API call in flight; result is the last response.
ApiIdle(result) ==
  [pc |-> "idle", op |-> "none", scenario_id |-> 0, status |-> None,
   prior |-> None, result |-> result]

\* Scenario mutations committed or about to be (bounded by MaxEvents; each
\* is followed by at most one append to the outbox).
MutationsStarted ==
  BagCardinality(mutations) + (IF rpc = "reset1" THEN 1 ELSE 0)

\* ------------------------------------------------------------------ Init
\* A constructed orchestrator that has not been started, apart from the
\* contents of the Store.
InitConstructed ==
  /\ now = 0
  /\ mutations = EmptyBag
  /\ lifecycle = "constructed"
  /\ running = FALSE
  /\ producer = FALSE
  /\ connected = FALSE
  /\ eventQueue = <<>>
  /\ api = ApiIdle("none")
  /\ dpc = [d \in Instances |-> IF d = 1 THEN "stopped" ELSE "absent"]
  /\ batch = [d \in Instances |-> <<>>]
  /\ cursor = [d \in Instances |-> 0]
  /\ iteration = [d \in Instances |-> 0]
  /\ retryTopic = <<>>
  /\ retryPos = 0
  /\ rpc = "stopped"
  /\ rmsg = <<>>
  /\ runners = {}
  /\ nextRunner = 0
  /\ live = {}
  /\ stopIds = <<>>
  /\ wtopic = <<>>
  /\ wpos = 0
  /\ worker = WorkerConsuming
  /\ predicts = {}
  /\ crashes = 0
  /\ calls = <<>>

\* The application before Orchestrator.start, over an empty Store.
Init ==
  /\ scenarios = <<>>
  /\ outbox = <<>>
  /\ published = <<>>
  /\ InitConstructed

\* datetime.now() / the server default now() of created_at: the values a
\* reading of the wall clock can give, none earlier than the last reading.
ClockNow == now..MaxClock


\* ------------------------------------------------------------- lifecycle

\* RunnerPool.create_runner, called k times: k fresh ids are tracked.
CreateRunners(rs, next, k) == rs \cup ((next + 1)..(next + k))

\* A reconcile that counts the entries of exited processes toward the size.
EnsurePoolSize_CountsDead(rs, lv, next) ==
  IF Cardinality(rs) < PoolSize
    THEN CreateRunners(rs \cap lv, next, PoolSize - Cardinality(rs))
    ELSE rs \cap lv

\* A reconcile that also drops the newest live runners above the pool size.
EnsurePoolSize_TrimsToPoolSize(rs, lv, next) ==
  IF Cardinality(rs \cap lv) < PoolSize
    THEN CreateRunners(rs \cap lv, next, PoolSize - Cardinality(rs \cap lv))
    ELSE {r \in rs \cap lv :
            Cardinality({q \in rs \cap lv : q <= r}) <= PoolSize}

\* RunnerPool.ensure_pool_size: the entries whose process has exited are
\* deleted, then runners are launched up to pool_size.
EnsurePoolSize(rs, lv, next) ==
  IF Cardinality(rs \cap lv) < PoolSize
    THEN CreateRunners(rs \cap lv, next, PoolSize - Cardinality(rs \cap lv))
    ELSE rs \cap lv

\* RunnerPool.remove_runner(runner_id): the registry after the call.
RemoveRunner(rs, runner_id) == rs \ {runner_id}

\* RunnerPool.remove_runner(runner_id): True iff the id was tracked.
RemoveRunnerResult(rs, runner_id) == runner_id \in rs

\* list(self.runners.keys()): the tracked ids in insertion order (ids are
\* numbered in the order of their creation).
RECURSIVE RunnerIds(_)
RunnerIds(rs) ==
  IF rs = {} THEN <<>>
  ELSE LET first == CHOOSE x \in rs : \A y \in rs : x <= y
       IN <<first>> \o RunnerIds(rs \ {first})

\* Orchestrator.start with a successful KafkaClient.connect: the producer is
\* connected, the pool is filled and both loop threads are started.
Start ==
  /\ lifecycle = "constructed"
  /\ running = FALSE
  /\ lifecycle' = "running"
  /\ running' = TRUE
  /\ producer' = TRUE
  /\ connected' = TRUE
  /\ runners' = EnsurePoolSize(runners, live, nextRunner)
  /\ nextRunner' = nextRunner + Cardinality(runners' \ runners)
  /\ live' = live \cup (runners' \ runners)
  /\ dpc' = [d \in Instances |-> IF dpc[d] = "absent" THEN "absent" ELSE "idle"]
  /\ rpc' = "consuming"
  /\ UNCHANGED <<storeVars, now, eventQueue, api, batch, cursor, iteration,
                 retryTopic, retryPos, rmsg, stopIds, workerVars, crashes,
                 calls>>

\* Orchestrator.start when KafkaClient.connect raises: _running is already
\* set and the producer object assigned; no thread is started and the
\* application does not come up.
StartConnectFail ==
  /\ lifecycle = "constructed"
  /\ running = FALSE
  /\ lifecycle' = "failed"
  /\ running' = TRUE
  /\ producer' = TRUE
  /\ UNCHANGED <<storeVars, now, connected, eventQueue, api, dispatchVars,
                 recoveryVars, poolVars, workerVars, crashes, calls>>

\* Orchestrator.stop, first statement: the stop signal.  The server has
\* finished the requests in flight before the shutdown hook runs.
StopSignal ==
  /\ lifecycle = "running"
  /\ api.pc = "idle"
  /\ lifecycle' = "stop_producer"
  /\ running' = FALSE
  /\ UNCHANGED <<storeVars, now, kafkaVars, eventQueue, api, dispatchVars,
                 recoveryVars, poolVars, workerVars, crashes, calls>>

\* KafkaClient.disconnect: producer.stop(); self.producer = None
StopProducer ==
  /\ lifecycle = "stop_producer"
  /\ lifecycle' = "stop_connected"
  /\ producer' = FALSE
  /\ UNCHANGED <<storeVars, now, running, connected, eventQueue, api,
                 dispatchVars, recoveryVars, poolVars, workerVars, crashes,
                 calls>>

\* KafkaClient.disconnect: self.connected = False
StopConnected ==
  /\ lifecycle = "stop_connected"
  /\ lifecycle' = "stop_runners"
  /\ connected' = FALSE
  /\ UNCHANGED <<storeVars, now, running, producer, eventQueue, api,
                 dispatchVars, recoveryVars, poolVars, workerVars, crashes,
                 calls>>

\* RunnerPool.stop_all_runners, first statement: the ids tracked now are
\* listed.
StopAllRunners ==
  /\ lifecycle = "stop_runners"
  /\ lifecycle' = "stop_remove"
  /\ stopIds' = RunnerIds(runners)
  /\ UNCHANGED <<storeVars, now, running, kafkaVars, eventQueue, api,
                 dispatchVars, recoveryVars, runners, nextRunner, live,
                 workerVars, crashes, calls>>

\* A stop_all_runners that works on a copy of the registry taken with the
\* list of ids and stores the copy back after each removal.
StopRemoveRunner_StaleCopy ==
  /\ lifecycle = "stop_remove"
  /\ stopIds # <<>>
  /\ stopIds' = Tail(stopIds)
  /\ runners' = {stopIds[i] : i \in 2..Len(stopIds)}
  /\ live' = live \ {Head(stopIds)}
  /\ UNCHANGED <<storeVars, now, lifecycle, running, kafkaVars, eventQueue,
                 api, dispatchVars, recoveryVars, nextRunner, workerVars,
                 crashes, calls>>

\* RunnerPool.stop_all_runners, one pass of its loop: remove_runner of the
\* next listed id terminates the process and deletes the entry.
StopRemoveRunner ==
  /\ lifecycle = "stop_remove"
  /\ stopIds # <<>>
  /\ stopIds' = Tail(stopIds)
  /\ IF RemoveRunnerResult(runners, Head(stopIds))
       THEN /\ runners' = RemoveRunner(runners, Head(stopIds))
            /\ live' = live \ {Head(stopIds)}
       ELSE UNCHANGED <<runners, live>>
  /\ UNCHANGED <<storeVars, now, lifecycle, running, kafkaVars, eventQueue,
                 api, dispatchVars, recoveryVars, nextRunner, workerVars,
                 crashes, calls>>

\* Orchestrator.stop after stop_all_runners has returned: the two joins
\* (each gives up after 5 seconds).
StopJoin ==
  /\ lifecycle = "stop_remove"
  /\ stopIds = <<>>
  /\ lifecycle' = "stopped"
  /\ UNCHANGED <<storeVars, now, running, kafkaVars, eventQueue, api,
                 dispatchVars, recoveryVars, poolVars, workerVars, crashes,
                 calls>>

\* A shutdown that drops the tables before it disposes of the engine.
LifespanDisconnect_DropTables ==
  /\ lifecycle = "stopped"
  /\ lifecycle' = "closed"
  /\ scenarios' = <<>>
  /\ outbox' = <<>>
  /\ published' = <<>>
  /\ predicts' = {}
  /\ UNCHANGED <<mutations, now, running, kafkaVars, eventQueue, api,
                 dispatchVars, recoveryVars, poolVars, wtopic, wpos, worker,
                 crashes, calls>>

\* lifespan after orchestrator.stop() has returned: db.disconnect() disposes
\* of the engine.  No row is touched.
LifespanDisconnect ==
  /\ lifecycle = "stopped"
  /\ lifecycle' = "closed"
  /\ UNCHANGED <<storeVars, now, running, kafkaVars, eventQueue, api,
                 dispatchVars, recoveryVars, poolVars, workerVars, crashes,
                 calls>>

\* The orchestrator process dies and a new one is constructed: everything
\* in memory is lost, the Store and the broker keep their contents, the
\* recovery consumer will resume from an offset committed earlier.
Crash ==
  /\ crashes < MaxCrashes
  /\ lifecycle # "constructed"
  /\ crashes' = crashes + 1
  /\ lifecycle' = "constructed"
  /\ running' = FALSE
  /\ producer' = FALSE
  /\ connected' = FALSE
  /\ eventQueue' = <<>>
  /\ api' = ApiIdle("none")
  /\ dpc' = [d \in Instances |-> IF dpc[d] = "absent" THEN "absent" ELSE "stopped"]
  /\ batch' = [d \in Instances |-> <<>>]
  /\ cursor' = [d \in Instances |-> 0]
  /\ iteration' = [d \in Instances |-> 0]
  /\ rpc' = "stopped"
  /\ rmsg' = <<>>
  /\ \E p \in 0..retryPos : retryPos' = p
  /\ runners' = {}
  /\ stopIds' = <<>>
  /\ UNCHANGED <<storeVars, now, retryTopic, nextRunner, live, workerVars,
                 calls>>

\* ------------------------------------------------------------------- API

\* Orchestrator.create_scenario up to the commit of
\* ScenarioCRUD.create_scenario.
ApiCreateScenario(status) ==
  /\ lifecycle = "running"
  /\ api.pc = "idle"
  /\ Len(scenarios) < MaxScenarios
  /\ MutationsStarted < MaxEvents
  /\ scenarios' = Append(scenarios, [status |-> StatusOrDefault(status)])
  /\ mutations' = mutations (+) SetToBag({Mutation(Len(scenarios) + 1,
         "scenario_created",
         [scenario_id |-> Len(scenarios) + 1,
          status |-> StatusOrDefault(status)])})
  /\ api' = [pc |-> "append", op |-> "create",
             scenario_id |-> Len(scenarios) + 1,
             status |-> StatusOrDefault(status), prior |-> None,
             result |-> "none"]
  /\ UNCHANGED <<outbox, published, now, lifecycle, running, kafkaVars,
                 eventQueue, dispatchVars, recoveryVars, poolVars, workerVars,
                 crashes, calls>>

\* An update_scenario_status that does not test the result of update_status.
ApiUpdateScenarioStatus_ResultIgnored(scenario_id, new_status) ==
  /\ lifecycle = "running"
  /\ api.pc = "idle"
  /\ MutationsStarted < MaxEvents
  /\ scenarios' = UpdateStatus(scenarios, scenario_id, new_status)
  /\ mutations' = IF UpdateStatusResult(scenarios, scenario_id)
                    THEN mutations (+) SetToBag({Mutation(scenario_id,
                           "scenario_status_updated",
                           [scenario_id |-> scenario_id,
                            status |-> new_status])})
                    ELSE mutations
  /\ api' = [pc |-> "append", op |-> "update",
             scenario_id |-> scenario_id, status |-> new_status,
             prior |-> IF UpdateStatusResult(scenarios, scenario_id)
                         THEN scenarios[scenario_id].status ELSE None,
             result |-> "none"]
  /\ UNCHANGED <<outbox, published, now, lifecycle, running, kafkaVars,
                 eventQueue, dispatchVars, recoveryVars, poolVars, workerVars,
                 crashes, calls>>

\* Orchestrator.update_scenario_status up to the result of
\* ScenarioCRUD.update_status: not found returns False, otherwise the new
\* status is committed.
ApiUpdateScenarioStatus(scenario_id, new_status) ==
  /\ lifecycle = "running"
  /\ api.pc = "idle"
  /\ MutationsStarted < MaxEvents
  /\ IF UpdateStatusResult(scenarios, scenario_id)
       THEN /\ scenarios' = UpdateStatus(scenarios, scenario_id, new_status)
            /\ mutations' = mutations (+) SetToBag({Mutation(scenario_id,
                   "scenario_status_updated",
                   [scenario_id |-> scenario_id, status |-> new_status])})
            /\ api' = [pc |-> "append", op |-> "update",
                       scenario_id |-> scenario_id, status |-> new_status,
                       prior |-> scenarios[scenario_id].status,
                       result |-> "none"]
       ELSE /\ api' = ApiIdle("not_found")
            /\ UNCHANGED <<scenarios, mutations>>
  /\ UNCHANGED <<outbox, published, now, lifecycle, running, kafkaVars,
                 eventQueue, dispatchVars, recoveryVars, poolVars, workerVars,
                 crashes, calls>>

\* A create_scenario / update_scenario_status that publishes its event to
\* the broker itself before it returns, and fails without a connection.
ApiCreateEvent_Publishes ==
  /\ api.pc = "append"
  /\ producer
  /\ connected
  /\ \E t \in ClockNow :
       /\ now' = t
       /\ outbox' = CreateEvent(outbox, api.scenario_id,
                      IF api.op = "create" THEN "scenario_created"
                                           ELSE "scenario_status_updated",
                      [scenario_id |-> api.scenario_id, status |-> api.status],
                      "scenarios", t)
  /\ published' = Append(published, 1)
  /\ eventQueue' = Append(eventQueue,
                     [type |-> IF api.op = "create" THEN "scenario_created"
                                    ELSE "scenario_status_updated",
                      scenario_id |-> api.scenario_id, status |-> api.status])
  /\ api' = ApiIdle("ok")
  /\ UNCHANGED <<scenarios, mutations, lifecycle, running, kafkaVars,
                 dispatchVars, recoveryVars, poolVars, workerVars, crashes,
                 calls>>

\* The rest of create_scenario / update_scenario_status:
\* OutboxManager.create_event commits the event, then the command is put on
\* the in-process queue and the call returns.
ApiCreateEvent ==
  /\ api.pc = "append"
  /\ \E t \in ClockNow :
       /\ now' = t
       /\ outbox' = CreateEvent(outbox, api.scenario_id,
                      IF api.op = "create" THEN "scenario_created"
                                           ELSE "scenario_status_updated",
                      [scenario_id |-> api.scenario_id, status |-> api.status],
                      "scenarios", t)
  /\ published' = Append(published, 0)
  /\ eventQueue' = Append(eventQueue,
                     [type |-> IF api.op = "create" THEN "scenario_created"
                                    ELSE "scenario_status_updated",
                      scenario_id |-> api.scenario_id, status |-> api.status])
  /\ api' = ApiIdle("ok")
  /\ UNCHANGED <<scenarios, mutations, lifecycle, running, kafkaVars,
                 dispatchVars, recoveryVars, poolVars, workerVars, crashes,
                 calls>>

\* OutboxManager.create_event raises (the Store rejects the insert): the
\* exception leaves create_scenario / update_scenario_status; the Scenario
\* write was committed by its own session before.
ApiCreateEventFail ==
  /\ api.pc = "append"
  /\ api' = ApiIdle("error")
  /\ UNCHANGED <<storeVars, now, lifecycle, running, kafkaVars, eventQueue,
                 dispatchVars, recoveryVars, poolVars, workerVars, crashes,
                 calls>>


\* The status values a request body can carry: the six of the enumeration,
\* none at all, and a string that is none of the six.
RequestStatuses == ScenarioStatus \cup {None, "paused"}

\* ScenarioCreate.status: Optional[ScenarioStatus].
ScenarioCreate(status) == status \in ScenarioStatus \cup {None}

\* A ScenarioUpdate whose status is a plain string.
ScenarioUpdate_AnyString(status) == status # None

\* ScenarioUpdate.status: ScenarioStatus, required.
ScenarioUpdate(status) == status \in ScenarioStatus

\* The request body fails the validation of its schema: the route handler is
\* not entered and the caller gets 422.
ApiUnprocessable ==
  /\ lifecycle = "running"
  /\ api.pc = "idle"
  /\ api' = ApiIdle("unprocessable")
  /\ UNCHANGED <<storeVars, now, lifecycle, running, kafkaVars, eventQueue,
                 dispatchVars, recoveryVars, poolVars, workerVars, crashes,
                 calls>>

\* --------------------------------------------------------- dispatch loop

\* Queue.get_nowait() in _event_processor_loop: at most one command is
\* taken; _process_event does nothing with it.
DrainOne(q) == IF q = <<>> THEN q ELSE Tail(q)

\* End of the handling of one event of the batch: the for loop moves to the
\* next event, or the iteration ends and the loop sleeps.
NextEvent(d) ==
  IF cursor[d] < Len(batch[d])
    THEN /\ dpc' = [dpc EXCEPT ![d] = "send"]
         /\ cursor' = [cursor EXCEPT ![d] = cursor[d] + 1]
         /\ batch' = batch
    ELSE /\ dpc' = [dpc EXCEPT ![d] = "idle"]
         /\ cursor' = [cursor EXCEPT ![d] = 0]
         /\ batch' = [batch EXCEPT ![d] = <<>>]

\* Mutant of DispatchPoll: the poll claims what it returns, so that a row in
\* the batch of one dispatch loop is not returned to another.
DispatchPoll_Claiming(d) ==
  /\ dpc[d] = "idle"
  /\ running
  /\ iteration[d] < MaxIterations
  /\ iteration' = [iteration EXCEPT ![d] = iteration[d] + 1]
  /\ eventQueue' = DrainOne(eventQueue)
  /\ \E events \in GetUnprocessedEvents(outbox, OutboxBatchLimit) :
       LET free == SelectSeq(events, LAMBDA e :
                     \A o \in Instances \ {d} :
                       \A i \in DOMAIN batch[o] : batch[o][i].id # e.id)
       IN /\ batch' = [batch EXCEPT ![d] = free]
          /\ IF free = <<>>
               THEN /\ dpc' = dpc
                    /\ cursor' = [cursor EXCEPT ![d] = 0]
               ELSE /\ dpc' = [dpc EXCEPT ![d] = "send"]
                    /\ cursor' = [cursor EXCEPT ![d] = 1]
  /\ UNCHANGED <<storeVars, now, lifecycle, running, kafkaVars, api,
                 recoveryVars, poolVars, workerVars, crashes, calls>>

\* One pass of the while loop up to the result of get_unprocessed_events:
\* count the iteration, drain one queued command, poll the outbox.
DispatchPoll(d) ==
  /\ dpc[d] = "idle"
  /\ running
  /\ iteration[d] < MaxIterations
  /\ iteration' = [iteration EXCEPT ![d] = iteration[d] + 1]
  /\ eventQueue' = DrainOne(eventQueue)
  /\ \E events \in GetUnprocessedEvents(outbox, OutboxBatchLimit) :
       /\ batch' = [batch EXCEPT ![d] = events]
       /\ IF events = <<>>
            THEN /\ dpc' = dpc
                 /\ cursor' = [cursor EXCEPT ![d] = 0]
            ELSE /\ dpc' = [dpc EXCEPT ![d] = "send"]
                 /\ cursor' = [cursor EXCEPT ![d] = 1]
  /\ UNCHANGED <<storeVars, now, lifecycle, running, kafkaVars, api,
                 recoveryVars, poolVars, workerVars, crashes, calls>>

\* get_unprocessed_events raises: _process_outbox_events logs it and the
\* iteration ends.
DispatchPollFail(d) ==
  /\ dpc[d] = "idle"
  /\ running
  /\ iteration[d] < MaxIterations
  /\ iteration' = [iteration EXCEPT ![d] = iteration[d] + 1]
  /\ eventQueue' = DrainOne(eventQueue)
  /\ UNCHANGED <<storeVars, now, lifecycle, running, kafkaVars, api, dpc,
                 batch, cursor, recoveryVars, poolVars, workerVars, crashes,
                 calls>>

\* while self._running: the loop ends once the flag is cleared.
DispatchExit(d) ==
  /\ dpc[d] = "idle"
  /\ ~running
  /\ dpc' = [dpc EXCEPT ![d] = "exited"]
  /\ UNCHANGED <<storeVars, now, lifecycle, running, kafkaVars, eventQueue,
                 api, batch, cursor, iteration, recoveryVars, poolVars,
                 workerVars, crashes, calls>>

\* if not self.kafka_client.connected: continue
DispatchSkip(d) ==
  /\ dpc[d] = "send"
  /\ ~connected
  /\ NextEvent(d)
  /\ UNCHANGED <<storeVars, now, lifecycle, running, kafkaVars, eventQueue,
                 api, iteration, recoveryVars, poolVars, workerVars, crashes,
                 calls>>

\* Mutant of DispatchSendOk: success is reported without a confirmed publish.
DispatchSendOk_Unconfirmed(d) ==
  /\ dpc[d] = "send"
  /\ connected
  /\ producer
  /\ dpc' = [dpc EXCEPT ![d] = "mark"]
  /\ UNCHANGED <<storeVars, now, lifecycle, running, kafkaVars, eventQueue,
                 api, batch, cursor, iteration, recoveryVars, poolVars,
                 workerVars, crashes, calls>>

\* KafkaClient.send_message returns True: the broker has the message.
DispatchSendOk(d) ==
  /\ dpc[d] = "send"
  /\ connected
  /\ producer
  /\ published' = [published EXCEPT ![batch[d][cursor[d]].id] = @ + 1]
  /\ dpc' = [dpc EXCEPT ![d] = "mark"]
  /\ UNCHANGED <<scenarios, outbox, mutations, now, lifecycle, running,
                 kafkaVars, eventQueue, api, batch, cursor, iteration,
                 recoveryVars, poolVars, workerVars, crashes, calls>>

\* Mutant of DispatchSendFail: the result of send_message is not tested.
DispatchSendFail_ThenMark(d) ==
  /\ dpc[d] = "send"
  /\ connected
  /\ dpc' = [dpc EXCEPT ![d] = "mark"]
  /\ UNCHANGED <<storeVars, now, lifecycle, running, kafkaVars, eventQueue,
                 api, batch, cursor, iteration, recoveryVars, poolVars,
                 workerVars, crashes, calls>>

\* KafkaClient.send_message returns False (no producer, or send_and_wait
\* raised): one attempt, nothing published, the event is left as it is.
DispatchSendFail(d) ==
  /\ dpc[d] = "send"
  /\ connected
  /\ NextEvent(d)
  /\ UNCHANGED <<storeVars, now, lifecycle, running, kafkaVars, eventQueue,
                 api, iteration, recoveryVars, poolVars, workerVars, crashes,
                 calls>>

\* if success: mark_as_processed(event.id) commits.
DispatchMark(d) ==
  /\ dpc[d] = "mark"
  /\ \E t \in ClockNow :
       /\ now' = t
       /\ outbox' = MarkAsProcessed(outbox, batch[d][cursor[d]].id, t)
  /\ NextEvent(d)
  /\ UNCHANGED <<scenarios, published, mutations, lifecycle, running,
                 kafkaVars, eventQueue, api, iteration, recoveryVars,
                 poolVars, workerVars, crashes, calls>>

\* A loop without the except of the for body and the ones around it: the
\* exception of mark_as_processed ends the thread.
DispatchMarkFail_Escapes(d) ==
  /\ dpc[d] = "mark"
  /\ dpc' = [dpc EXCEPT ![d] = "exited"]
  /\ cursor' = [cursor EXCEPT ![d] = 0]
  /\ batch' = [batch EXCEPT ![d] = <<>>]
  /\ UNCHANGED <<storeVars, now, lifecycle, running, kafkaVars, eventQueue,
                 api, iteration, recoveryVars, poolVars, workerVars, crashes,
                 calls>>

\* mark_as_processed raises: logged by the except of the for body.
DispatchMarkFail(d) ==
  /\ dpc[d] = "mark"
  /\ NextEvent(d)
  /\ UNCHANGED <<storeVars, now, lifecycle, running, kafkaVars, eventQueue,
                 api, iteration, recoveryVars, poolVars, workerVars, crashes,
                 calls>>

\* --------------------------------------------------------- recovery loop

Reasons == {"failed_to_read_frame"}

\* A failed worker's Runner._handle_error publishes to the recovery channel.
RetryPublish(scenario_id, reason) ==
  /\ Len(retryTopic) < MaxRetryMessages
  /\ retryTopic' = Append(retryTopic,
        [scenario_id |-> scenario_id,
         event_data |-> [scenario_id |-> scenario_id, reason |-> reason],
         reason |-> reason])
  /\ UNCHANGED <<storeVars, now, lifecycle, running, kafkaVars, eventQueue,
                 api, dispatchVars, retryPos, rpc, rmsg, poolVars, workerVars,
                 crashes, calls>>

\* The consumer of the recovery channel is handed a message it was handed
\* before (enable_auto_commit: the offset of a message is committed some time
\* after its delivery, so a rebalance or a reconnect delivers it again).
RetryDuplicate ==
  /\ Len(retryTopic) < MaxRetryMessages + 1
  /\ \E i \in DOMAIN retryTopic :
       retryTopic' = Append(retryTopic, retryTopic[i])
  /\ UNCHANGED <<storeVars, now, lifecycle, running, kafkaVars, eventQueue,
                 api, dispatchVars, retryPos, rpc, rmsg, poolVars, workerVars,
                 crashes, calls>>

\* async for msg in consumer, with the stop signal set: break.
RecoveryExit ==
  /\ rpc = "consuming"
  /\ ~running
  /\ retryPos < Len(retryTopic)
  /\ retryPos' = retryPos + 1
  /\ rpc' = "exited"
  /\ UNCHANGED <<storeVars, now, lifecycle, running, kafkaVars, eventQueue,
                 api, dispatchVars, retryTopic, rmsg, poolVars, workerVars,
                 crashes, calls>>

\* async for msg in consumer, the stop signal not set: the message is handed
\* to _handle_retry_message, which awaits ScenarioCRUD.get_scenario.
RecoveryTake ==
  /\ rpc = "consuming"
  /\ running
  /\ retryPos < Len(retryTopic)
  /\ retryPos' = retryPos + 1
  /\ rmsg' = [message |-> retryTopic[retryPos + 1], new_runner_id |-> 0]
  /\ rpc' = "lookup"
  /\ UNCHANGED <<storeVars, now, lifecycle, running, kafkaVars, eventQueue,
                 api, dispatchVars, retryTopic, poolVars, workerVars,
                 crashes, calls>>

\* A handler that launches the runner before it looks the scenario up.
RecoveryDrop_LaunchFirst ==
  /\ rpc = "lookup"
  /\ rmsg.message.scenario_id \notin DOMAIN scenarios
  /\ runners' = CreateRunners(runners, nextRunner, 1)
  /\ nextRunner' = nextRunner + 1
  /\ live' = live \cup {nextRunner + 1}
  /\ rpc' = "consuming"
  /\ rmsg' = <<>>
  /\ UNCHANGED <<storeVars, now, lifecycle, running, kafkaVars, eventQueue,
                 api, dispatchVars, retryTopic, retryPos, stopIds,
                 workerVars, crashes, calls>>

\* get_scenario finds no scenario: the handler returns, the message is
\* dropped.
RecoveryDrop ==
  /\ rpc = "lookup"
  /\ rmsg.message.scenario_id \notin DOMAIN scenarios
  /\ rpc' = "consuming"
  /\ rmsg' = <<>>
  /\ UNCHANGED <<storeVars, now, lifecycle, running, kafkaVars, eventQueue,
                 api, dispatchVars, retryTopic, retryPos, poolVars,
                 workerVars, crashes, calls>>

\* get_scenario finds the scenario: create_runner.
RecoveryLaunch ==
  /\ rpc = "lookup"
  /\ rmsg.message.scenario_id \in DOMAIN scenarios
  /\ MutationsStarted < MaxEvents
  /\ rmsg' = [rmsg EXCEPT !.new_runner_id = nextRunner + 1]
  /\ runners' = CreateRunners(runners, nextRunner, 1)
  /\ nextRunner' = nextRunner + 1
  /\ live' = live \cup {nextRunner + 1}
  /\ rpc' = "reset1"
  /\ UNCHANGED <<storeVars, now, lifecycle, running, kafkaVars, eventQueue,
                 api, dispatchVars, retryTopic, retryPos, stopIds,
                 workerVars, crashes, calls>>

\* An event_data that does not name the runner just launched.
RestartedData_NoRunner ==
  [scenario_id |-> rmsg.message.scenario_id,
   new_runner_id |-> 0,
   reason |-> rmsg.message.reason,
   original_event |-> rmsg.message.event_data]

\* The event_data of the scenario_restarted event of the recovery in progress.
RestartedData ==
  [scenario_id |-> rmsg.message.scenario_id,
   new_runner_id |-> rmsg.new_runner_id,
   reason |-> rmsg.message.reason,
   original_event |-> rmsg.message.event_data]

\* update_status(scenario_id, INIT_STARTUP) commits.
RecoveryInitStartup ==
  /\ rpc = "reset1"
  /\ scenarios' = UpdateStatus(scenarios, rmsg.message.scenario_id,
                               INIT_STARTUP)
  /\ mutations' = mutations (+) SetToBag({Mutation(rmsg.message.scenario_id,
                     "scenario_restarted", RestartedData)})
  /\ rpc' = "reset2"
  /\ UNCHANGED <<outbox, published, now, lifecycle, running, kafkaVars,
                 eventQueue, api, dispatchVars, retryTopic, retryPos, rmsg,
                 poolVars, workerVars, crashes, calls>>

\* The handler without its second update_status.
RecoveryInitStartupProcessing_NoWrite ==
  /\ rpc = "reset2"
  /\ rpc' = "append"
  /\ UNCHANGED <<storeVars, now, lifecycle, running, kafkaVars, eventQueue,
                 api, dispatchVars, retryTopic, retryPos, rmsg, poolVars,
                 workerVars, crashes, calls>>

\* update_status(scenario_id, INIT_STARTUP_PROCESSING) commits.
RecoveryInitStartupProcessing ==
  /\ rpc = "reset2"
  /\ scenarios' = UpdateStatus(scenarios, rmsg.message.scenario_id,
                               INIT_STARTUP_PROCESSING)
  /\ rpc' = "append"
  /\ UNCHANGED <<outbox, published, mutations, now, lifecycle, running,
                 kafkaVars, eventQueue, api, dispatchVars, retryTopic,
                 retryPos, rmsg, poolVars, workerVars, crashes, calls>>

\* create_event(scenario_restarted) commits; the handler returns.
RecoveryCreateEvent ==
  /\ rpc = "append"
  /\ \E t \in ClockNow :
       /\ now' = t
       /\ outbox' = CreateEvent(outbox, rmsg.message.scenario_id,
                                "scenario_restarted", RestartedData,
                                "scenarios", t)
  /\ published' = Append(published, 0)
  /\ rpc' = "consuming"
  /\ rmsg' = <<>>
  /\ UNCHANGED <<scenarios, mutations, lifecycle, running, kafkaVars,
                 eventQueue, api, dispatchVars, retryTopic, retryPos,
                 poolVars, workerVars, crashes, calls>>

\* A Store call of the handler raises: the except of the consumer loop logs
\* it and the loop takes the next message.
RecoveryFail ==
  /\ rpc \in {"lookup", "reset1", "reset2", "append"}
  /\ rpc' = "consuming"
  /\ rmsg' = <<>>
  /\ UNCHANGED <<storeVars, now, lifecycle, running, kafkaVars, eventQueue,
                 api, dispatchVars, retryTopic, retryPos, poolVars,
                 workerVars, crashes, calls>>

\* ------------------------------------------------------------ the worker

\* The runner of the pool whose process is followed step by step.
WorkerId == 1

\* What the worker leaves alone: the orchestrator's memory and the outbox.
nonWorkerVars ==
  <<outbox, published, mutations, now, lifecycle, running, kafkaVars,
    eventQueue, api, dispatchVars, retryPos, rpc, rmsg, runners, nextRunner,
    stopIds, crashes, calls>>

\* The values of topic scenarios as the worker sees them: the service
\* message, a value without scenario_id (0), an event_data with scenario_id.
WorkerMessages ==
  {[type |-> "__init__", scenario_id |-> 0]}
    \cup {[type |-> "event", scenario_id |-> id] : id \in 0..MaxScenarios}

\* The worker at a step of Runner.process_scenario(scenario_id).
WorkerAt(pc, scenario_id, reason) ==
  [pc |-> pc, scenario_id |-> scenario_id, reason |-> reason,
   result |-> "none"]

\* KafkaWorker.run has left its loop: consumer.stop(), self.stop(), and the
\* process ends.
WorkerExited(scenario_id, reason, result) ==
  [pc |-> "exited", scenario_id |-> scenario_id, reason |-> reason,
   result |-> result]

\* The broker hands the worker's consumer one more value of topic scenarios.
ScenariosDeliver(message) ==
  /\ Len(wtopic) < MaxMessages
  /\ wtopic' = Append(wtopic, message)
  /\ UNCHANGED <<nonWorkerVars, scenarios, retryTopic, live, wpos, worker,
                 predicts>>

\* async for msg in consumer: a service message or a value without
\* scenario_id is skipped.
WorkerSkip ==
  /\ worker.pc = "consuming"
  /\ WorkerId \in live
  /\ wpos < Len(wtopic)
  /\ \/ wtopic[wpos + 1].type = "__init__"
     \/ wtopic[wpos + 1].scenario_id = 0
  /\ wpos' = wpos + 1
  /\ UNCHANGED <<nonWorkerVars, scenarios, retryTopic, live, wtopic, worker,
                 predicts>>

\* async for msg in consumer: process_scenario(scenario_id) is entered.
WorkerTake ==
  /\ worker.pc = "consuming"
  /\ WorkerId \in live
  /\ wpos < Len(wtopic)
  /\ wtopic[wpos + 1].type # "__init__"
  /\ wtopic[wpos + 1].scenario_id # 0
  /\ wpos' = wpos + 1
  /\ worker' = WorkerAt("read_frame", wtopic[wpos + 1].scenario_id, "none")
  /\ UNCHANGED <<nonWorkerVars, scenarios, retryTopic, live, wtopic,
                 predicts>>

\* video_processor.read_frame returns a frame.
WorkerReadFrameOk ==
  /\ worker.pc = "read_frame"
  /\ worker' = [worker EXCEPT !.pc = "predict"]
  /\ UNCHANGED <<nonWorkerVars, scenarios, retryTopic, live, wtopic, wpos,
                 predicts>>

\* video_processor.read_frame returns nothing.
WorkerReadFrameFail ==
  /\ worker.pc = "read_frame"
  /\ worker' = [worker EXCEPT !.pc = "report",
                              !.reason = "failed_to_read_frame"]
  /\ UNCHANGED <<nonWorkerVars, scenarios, retryTopic, live, wtopic, wpos,
                 predicts>>

\* video_processor.read_frame raises: the outer except of process_scenario.
WorkerReadFrameRaise ==
  /\ worker.pc = "read_frame"
  /\ worker' = [worker EXCEPT !.pc = "report_outer",
                              !.reason = "unexpected_error"]
  /\ UNCHANGED <<nonWorkerVars, scenarios, retryTopic, live, wtopic, wpos,
                 predicts>>

\* inference_client.predict returns predictions.
WorkerPredictOk ==
  /\ worker.pc = "predict"
  /\ worker' = [worker EXCEPT !.pc = "save"]
  /\ UNCHANGED <<nonWorkerVars, scenarios, retryTopic, live, wtopic, wpos,
                 predicts>>

\* inference_client.predict raises.
WorkerPredictFail ==
  /\ worker.pc = "predict"
  /\ worker' = [worker EXCEPT !.pc = "report", !.reason = "inference_error"]
  /\ UNCHANGED <<nonWorkerVars, scenarios, retryTopic, live, wtopic, wpos,
                 predicts>>

\* ScenarioCRUD.update_predict commits (no row is written when the scenario
\* does not exist; the result is not looked at).
WorkerSaveOk ==
  /\ worker.pc = "save"
  /\ predicts' = predicts \cup ({worker.scenario_id} \cap DOMAIN scenarios)
  /\ worker' = [worker EXCEPT !.pc = "activate"]
  /\ UNCHANGED <<nonWorkerVars, scenarios, retryTopic, live, wtopic, wpos>>

\* ScenarioCRUD.update_predict raises.
WorkerSaveFail ==
  /\ worker.pc = "save"
  /\ worker' = [worker EXCEPT !.pc = "report", !.reason = "db_save_error"]
  /\ UNCHANGED <<nonWorkerVars, scenarios, retryTopic, live, wtopic, wpos,
                 predicts>>

\* ScenarioCRUD.update_status(scenario_id, ACTIVE) commits; process_scenario
\* returns True and the worker waits for the next message.
WorkerActivateOk ==
  /\ worker.pc = "activate"
  /\ scenarios' = UpdateStatus(scenarios, worker.scenario_id, ACTIVE)
  /\ worker' = [WorkerConsuming EXCEPT !.scenario_id = worker.scenario_id,
                                       !.result = "success"]
  /\ UNCHANGED <<nonWorkerVars, retryTopic, live, wtopic, wpos, predicts>>

\* ScenarioCRUD.update_status raises.
WorkerActivateFail ==
  /\ worker.pc = "activate"
  /\ worker' = [worker EXCEPT !.pc = "report",
                              !.reason = "status_update_error"]
  /\ UNCHANGED <<nonWorkerVars, scenarios, retryTopic, live, wtopic, wpos,
                 predicts>>

\* The message Runner._handle_error hands to send_to_retry_topic.
RetryMessage(scenario_id, reason) ==
  [scenario_id |-> scenario_id,
   event_data |-> [scenario_id |-> scenario_id,
                   status |-> IF scenario_id \in DOMAIN scenarios
                                THEN scenarios[scenario_id].status
                                ELSE "unknown",
                   reason |-> reason,
                   runner_id |-> WorkerId],
   reason |-> reason]

\* _handle_error: send_to_retry_topic returns False (send_message caught the
\* broker error, or there is no producer); the result is not looked at,
\* process_scenario returns False and the worker leaves its loop.
WorkerReportLost ==
  /\ worker.pc \in {"report", "report_outer"}
  /\ worker' = WorkerExited(worker.scenario_id, worker.reason, "failure")
  /\ live' = live \ {WorkerId}
  /\ UNCHANGED <<nonWorkerVars, scenarios, retryTopic, wtopic, wpos,
                 predicts>>

\* _handle_error: the message is published to retry_topic; process_scenario
\* returns False and the worker leaves its loop.
WorkerReportOk ==
  /\ worker.pc \in {"report", "report_outer"}
  /\ retryTopic' = Append(retryTopic,
                          RetryMessage(worker.scenario_id, worker.reason))
  /\ worker' = WorkerExited(worker.scenario_id, worker.reason, "failure")
  /\ live' = live \ {WorkerId}
  /\ UNCHANGED <<nonWorkerVars, scenarios, wtopic, wpos, predicts>>

\* _handle_error: get_scenario raises, _handle_error re-raises.  Raised from
\* a call inside the try of process_scenario it reaches the outer except,
\* which calls _handle_error again; raised from there it leaves
\* process_scenario and the worker leaves its loop.
WorkerReportRaise ==
  /\ worker.pc \in {"report", "report_outer"}
  /\ worker' = IF worker.pc = "report"
                 THEN [worker EXCEPT !.pc = "report_outer",
                                     !.reason = "unexpected_error"]
                 ELSE WorkerExited(worker.scenario_id, worker.reason, "raised")
  /\ live' = IF worker.pc = "report" THEN live ELSE live \ {WorkerId}
  /\ UNCHANGED <<nonWorkerVars, scenarios, retryTopic, wtopic, wpos,
                 predicts>>

\* --------------------------------------------------------- specifications
\* API calls whose Store writes all succeed.
ApiCalls ==
  \/ \E status \in ApiStatuses : ApiCreateScenario(status)
  \/ \E scenario_id \in 1..MaxScenarios, new_status \in ApiStatuses \ {None} :
       ApiUpdateScenarioStatus(scenario_id, new_status)
  \/ ApiCreateEvent

ApiNext ==
  \/ ApiCalls
  \/ ApiCreateEventFail

\* API calls and the dispatch loop of one orchestrator that is started and
\* keeps running.
Next ==
  \/ Start
  \/ ApiCalls
  \/ \E d \in Instances : DispatchPoll(d)
  \/ \E d \in Instances : DispatchPollFail(d)
  \/ \E d \in Instances : DispatchSendOk(d)
  \/ \E d \in Instances : DispatchSendFail(d)
  \/ \E d \in Instances : DispatchMark(d)
  \/ \E d \in Instances : DispatchMarkFail(d)

Spec == Init /\ [][Next]_vars

\* API calls and the recovery loop, with crashes and restarts of the
\* orchestrator process; nothing is dispatched.
NextAtomic ==
  \/ Start
  \/ StartConnectFail
  \/ Crash
  \/ ApiNext
  \/ \E scenario_id \in 1..MaxScenarios, reason \in Reasons :
       RetryPublish(scenario_id, reason)
  \/ RecoveryTake
  \/ RecoveryDrop
  \/ RecoveryLaunch
  \/ RecoveryInitStartup
  \/ RecoveryInitStartupProcessing
  \/ RecoveryCreateEvent
  \/ RecoveryFail

SpecAtomic == Init /\ [][NextAtomic]_vars


\* ------------------------------------------- the outbox operations alone

\* An outbox row left by earlier activity: created at c, processed or not.
StoredEvent(id, c, processed) ==
  [OutboxEvent(id, 1, "scenario_status_updated",
               [scenario_id |-> 1, status |-> ACTIVE], "scenarios", c)
     EXCEPT !.processed = processed,
            !.processed_at = IF processed THEN <<c>> ELSE <<>>]

\* The outbox tables of n rows, ids 1..n.
StoredOutboxes(n) ==
  {[i \in 1..n |-> StoredEvent(i, c[i], p[i])] :
     c \in [1..n -> 0..MaxClock], p \in [1..n -> BOOLEAN]}

\* The state of a started orchestrator (Orchestrator.start has returned) and
\* of one worker of its pool, apart from the Store, the runner registry and
\* the dispatch loops deployed.
InitOrchestrator ==
  /\ mutations = EmptyBag
  /\ now = MaxClock
  /\ lifecycle = "running"
  /\ running = TRUE
  /\ producer = TRUE
  /\ connected = TRUE
  /\ eventQueue = <<>>
  /\ api = ApiIdle("none")
  /\ batch = [d \in Instances |-> <<>>]
  /\ cursor = [d \in Instances |-> 0]
  /\ iteration = [d \in Instances |-> 0]
  /\ retryTopic = <<>>
  /\ retryPos = 0
  /\ rpc = "consuming"
  /\ rmsg = <<>>
  /\ stopIds = <<>>
  /\ wtopic = <<>>
  /\ wpos = 0
  /\ worker = WorkerConsuming
  /\ predicts = {}
  /\ crashes = 0
  /\ calls = <<>>

\* A started orchestrator with its one dispatch loop, apart from the Store
\* and the runner registry.
InitStarted ==
  /\ InitOrchestrator
  /\ dpc = [d \in Instances |-> IF d = 1 THEN "idle" ELSE "absent"]

\* A started orchestrator, apart from the contents of the Store: start has
\* filled the pool and every runner process is alive.
InitRunning ==
  /\ InitStarted
  /\ runners = 1..PoolSize
  /\ nextRunner = PoolSize
  /\ live = 1..PoolSize

\* A started orchestrator over a Store that already holds one Scenario and
\* up to MaxRows outbox rows.
InitStored ==
  /\ scenarios = <<[status |-> ACTIVE]>>
  /\ \E n \in 0..MaxRows : outbox \in StoredOutboxes(n)
  /\ published = [i \in DOMAIN outbox |-> IF outbox[i].processed THEN 1 ELSE 0]
  /\ InitRunning

\* A direct call of OutboxManager.mark_as_processed(event_id).
CallMarkAsProcessed(event_id) ==
  /\ Len(calls) < MaxCalls
  /\ \E t \in ClockNow :
       /\ now' = t
       /\ outbox' = MarkAsProcessed(outbox, event_id, t)
  /\ calls' = Append(calls, [op |-> "mark_as_processed", arg |-> event_id,
                             result |-> MarkAsProcessedResult(outbox, event_id),
                             events |-> <<>>])
  /\ UNCHANGED <<scenarios, published, mutations, lifecycle, running,
                 kafkaVars, eventQueue, api, dispatchVars, recoveryVars,
                 poolVars, workerVars, crashes>>

\* A direct call of OutboxManager.get_unprocessed_events(limit).  The call
\* writes nothing, so a call after it would see the table this one saw: one
\* call per behaviour covers them all.
CallGetUnprocessedEvents(limit) ==
  /\ calls = <<>>
  /\ \E events \in GetUnprocessedEvents(outbox, limit) :
       calls' = Append(calls, [op |-> "get_unprocessed_events",
                               arg |-> limit, result |-> TRUE,
                               events |-> events])
  /\ UNCHANGED <<storeVars, now, lifecycle, running, kafkaVars, eventQueue,
                 api, dispatchVars, recoveryVars, poolVars, workerVars,
                 crashes>>

\* mark_as_processed called with ids that exist and with one that does not.
NextOutbox ==
  \E event_id \in 1..(MaxRows + 1) : CallMarkAsProcessed(event_id)

SpecOutbox == InitStored /\ [][NextOutbox]_vars

\* get_unprocessed_events called with limits from 0 to above the table size.
NextPoll ==
  \E limit \in 0..(MaxRows + 1) : CallGetUnprocessedEvents(limit)

SpecPoll == InitStored /\ [][NextPoll]_vars

\* The dispatch loop alone over a stored outbox: the broker is reachable,
\* every publish and every Store call succeeds, nothing is appended.
NextDrain ==
  \/ \E d \in Instances : DispatchPoll(d)
  \/ \E d \in Instances : DispatchSendOk(d)
  \/ \E d \in Instances : DispatchMark(d)

SpecDrain == InitStored /\ [][NextDrain]_vars

\* Two deployments of the service against one Store: each runs its own
\* dispatch loop (_event_processor_loop) with a connected producer, and both
\* poll the same outbox table of at most MaxEvents rows.
InitDispatchers ==
  /\ InitOrchestrator
  /\ dpc = [d \in Instances |-> "idle"]
  /\ runners = 1..PoolSize
  /\ nextRunner = PoolSize
  /\ live = 1..PoolSize
  /\ scenarios = <<[status |-> ACTIVE]>>
  /\ \E n \in 0..MaxEvents : outbox \in StoredOutboxes(n)
  /\ published = [i \in DOMAIN outbox |-> IF outbox[i].processed THEN 1 ELSE 0]

\* Both dispatch loops with every publish and every Store call succeeding.
NextDispatchers ==
  \/ \E d \in Instances : DispatchPoll(d)
  \/ \E d \in Instances : DispatchSendOk(d)
  \/ \E d \in Instances : DispatchMark(d)

SpecDispatchers == InitDispatchers /\ [][NextDispatchers]_vars

\* A started orchestrator over a Store that holds at most MaxEvents outbox
\* rows.
InitShutdown ==
  /\ InitStored
  /\ Len(outbox) <= MaxEvents

\* The dispatch loop over a stored outbox of at most MaxEvents rows, with
\* failing publishes and Store calls, while the orchestrator is shut down at
\* any moment.
NextShutdown ==
  \/ StopSignal
  \/ StopProducer
  \/ StopConnected
  \/ StopAllRunners
  \/ StopRemoveRunner
  \/ StopJoin
  \/ \E d \in Instances : DispatchPoll(d)
  \/ \E d \in Instances : DispatchPollFail(d)
  \/ \E d \in Instances : DispatchExit(d)
  \/ \E d \in Instances : DispatchSkip(d)
  \/ \E d \in Instances : DispatchSendOk(d)
  \/ \E d \in Instances : DispatchSendFail(d)
  \/ \E d \in Instances : DispatchMark(d)
  \/ \E d \in Instances : DispatchMarkFail(d)

SpecShutdown == InitShutdown /\ [][NextShutdown]_vars

\* ------------------------------------------------- the runner pool alone

\* The process of a tracked runner exits (Popen.poll() stops returning None).
RunnerExit(runner_id) ==
  /\ runner_id \in runners \cap live
  /\ live' = live \ {runner_id}
  /\ UNCHANGED <<storeVars, now, lifecycle, running, kafkaVars, eventQueue,
                 api, dispatchVars, recoveryVars, runners, nextRunner,
                 stopIds, workerVars, crashes, calls>>

\* A direct call of RunnerPool.ensure_pool_size().
CallEnsurePoolSize ==
  /\ Len(calls) < MaxCalls
  /\ LET after == EnsurePoolSize(runners, live, nextRunner)
         created == after \ runners
     IN /\ nextRunner + Cardinality(created) <= PoolSize + MaxLaunches
        /\ runners' = after
        /\ nextRunner' = nextRunner + Cardinality(created)
        /\ live' = live \cup created
  /\ calls' = Append(calls, [op |-> "ensure_pool_size", arg |-> 0,
                             result |-> TRUE, events |-> <<>>])
  /\ UNCHANGED <<storeVars, now, lifecycle, running, kafkaVars, eventQueue,
                 api, dispatchVars, recoveryVars, stopIds, workerVars,
                 crashes>>

\* A started orchestrator whose recovery loop has launched up to MaxLaunches
\* runners beyond the pool; every tracked process is alive.
InitPool ==
  /\ scenarios = <<[status |-> ACTIVE]>>
  /\ outbox = <<>>
  /\ published = <<>>
  /\ InitStarted
  /\ \E k \in 0..MaxLaunches :
       /\ runners = 1..(PoolSize + k)
       /\ nextRunner = PoolSize + k
       /\ live = 1..(PoolSize + k)

\* Runner processes exit and ensure_pool_size is called.
NextPool ==
  \/ \E runner_id \in 1..(PoolSize + MaxLaunches) : RunnerExit(runner_id)
  \/ CallEnsurePoolSize

SpecPool == InitPool /\ [][NextPool]_vars

\* process.wait(timeout=5) after terminate(): the process exits within the
\* grace period, or the wait times out.
WaitOutcomes == {"exited", "TimeoutExpired"}

\* A remove_runner that does not escalate when the wait times out.
RemoveRunnerSignals_NoEscalation(alive, wait) ==
  IF ~alive THEN <<>> ELSE <<"terminate">>

\* RunnerPool.remove_runner: the signals sent to the process of the runner.
\* None when it has exited already (poll() is not None), terminate() when it
\* runs, kill() as well when the wait times out.
RemoveRunnerSignals(alive, wait) ==
  IF ~alive THEN <<>>
  ELSE IF wait = "exited" THEN <<"terminate">>
  ELSE <<"terminate", "kill">>

\* The process stops on terminate() when it exits within the grace period,
\* and on kill() in any case.
StoppedBy(signals, wait) ==
  \/ \E i \in DOMAIN signals : signals[i] = "kill"
  \/ signals # <<>> /\ wait = "exited"

\* A direct call of RunnerPool.remove_runner(runner_id).
CallRemoveRunner(runner_id) ==
  /\ Len(calls) < MaxCalls
  /\ \E wait \in WaitOutcomes :
       LET signals == RemoveRunnerSignals(runner_id \in live, wait) IN
         /\ calls' = Append(calls,
              [op |-> "remove_runner", arg |-> runner_id,
               result |-> RemoveRunnerResult(runners, runner_id),
               events |-> IF RemoveRunnerResult(runners, runner_id)
                            THEN signals ELSE <<>>])
         /\ IF RemoveRunnerResult(runners, runner_id)
              THEN /\ runners' = RemoveRunner(runners, runner_id)
                   /\ live' = IF StoppedBy(signals, wait)
                                THEN live \ {runner_id} ELSE live
              ELSE UNCHANGED <<runners, live>>
  /\ UNCHANGED <<storeVars, now, lifecycle, running, kafkaVars, eventQueue,
                 api, dispatchVars, recoveryVars, nextRunner, stopIds,
                 workerVars, crashes>>

\* Runner processes exit and remove_runner is called, for tracked ids, for
\* ids removed before and for an id never launched.
NextRemove ==
  \/ \E runner_id \in 1..(PoolSize + MaxLaunches) : RunnerExit(runner_id)
  \/ \E runner_id \in 1..(PoolSize + MaxLaunches + 1) :
       CallRemoveRunner(runner_id)

SpecRemove == InitPool /\ [][NextRemove]_vars

\* ----------------------------------------------- the pool under the loops

\* The application before Orchestrator.start, over a Store that holds one
\* Scenario.
InitSupervisor ==
  /\ scenarios = <<[status |-> ACTIVE]>>
  /\ outbox = <<>>
  /\ published = <<>>
  /\ InitConstructed

\* The handler of the recovery loop, every step of it.
RecoveryStep ==
  \/ RecoveryTake
  \/ RecoveryDrop
  \/ RecoveryLaunch
  \/ RecoveryInitStartup
  \/ RecoveryInitStartupProcessing
  \/ RecoveryCreateEvent

\* The orchestrator is started and runs its recovery loop while runner
\* processes exit, at most MaxExits of the tracked ones being dead at a time;
\* some of the exits are reported on the recovery channel.
NextSupervisor ==
  \/ Start
  \/ \E runner_id \in 1..(PoolSize + MaxEvents) :
       Cardinality(runners \ live) < MaxExits /\ RunnerExit(runner_id)
  \/ \E scenario_id \in 1..MaxScenarios, reason \in Reasons :
       RetryPublish(scenario_id, reason)
  \/ RecoveryStep

\* start() returns and the recovery thread keeps taking the steps it can
\* take; exits and reports are up to the workers.
SpecSupervisor ==
  InitSupervisor /\ [][NextSupervisor]_vars
    /\ WF_vars(Start) /\ WF_vars(RecoveryStep)

\* ------------------------------------------------ the recovery loop alone

\* A started orchestrator over a Store that holds up to MaxScenarios
\* Scenarios, each in any of the six statuses, and an empty outbox.
InitRecovery ==
  /\ \E n \in 1..MaxScenarios :
       scenarios \in [1..n -> [status : ScenarioStatus]]
  /\ outbox = <<>>
  /\ published = <<>>
  /\ InitRunning

\* The recovery loop of a running orchestrator whose Store calls all
\* succeed, and the recovery channel, which may deliver a message again.
NextRecovery ==
  \/ \E scenario_id \in 1..MaxScenarios, reason \in Reasons :
       RetryPublish(scenario_id, reason)
  \/ RetryDuplicate
  \/ RecoveryTake
  \/ RecoveryDrop
  \/ RecoveryLaunch
  \/ RecoveryInitStartup
  \/ RecoveryInitStartupProcessing
  \/ RecoveryCreateEvent

SpecRecovery == InitRecovery /\ [][NextRecovery]_vars

\* The recovery loop beside the API thread: status updates of the API run
\* while the handler of a recovery message is between two of its calls.
NextRecoveryApi ==
  \/ NextRecovery
  \/ \E scenario_id \in 1..MaxScenarios, new_status \in ApiStatuses \ {None} :
       ApiUpdateScenarioStatus(scenario_id, new_status)
  \/ ApiCreateEvent

SpecRecoveryApi == InitRecovery /\ [][NextRecoveryApi]_vars

\* ------------------------------------------------------ the worker alone

\* One worker of the pool consuming topic scenarios, with every failure its
\* calls can have.
NextWorker ==
  \/ \E message \in WorkerMessages : ScenariosDeliver(message)
  \/ WorkerSkip
  \/ WorkerTake
  \/ WorkerReadFrameOk
  \/ WorkerReadFrameFail
  \/ WorkerReadFrameRaise
  \/ WorkerPredictOk
  \/ WorkerPredictFail
  \/ WorkerSaveOk
  \/ WorkerSaveFail
  \/ WorkerActivateOk
  \/ WorkerActivateFail
  \/ WorkerReportOk
  \/ WorkerReportLost
  \/ WorkerReportRaise

SpecWorker == InitRecovery /\ [][NextWorker]_vars

\* ------------------------------------- the worker and the recovery loop

\* One worker of the pool, with every failure its calls can have, beside the
\* recovery loop of the orchestrator that launched it.
NextFailureRecovery ==
  \/ NextWorker
  \/ RecoveryStep

SpecFailureRecovery == InitRecovery /\ [][NextFailureRecovery]_vars

\* -------------------------------------------- every writer of the Store

\* The requests of the API as the routes receive them: a body is validated
\* against its schema before the orchestrator is called.
ApiRequests ==
  \/ \E status \in RequestStatuses :
       ScenarioCreate(status) /\ ApiCreateScenario(status)
  \/ \E scenario_id \in 1..MaxScenarios, status \in RequestStatuses :
       ScenarioUpdate(status) /\ ApiUpdateScenarioStatus(scenario_id, status)
  \/ \E status \in RequestStatuses :
       ~ScenarioUpdate(status) /\ ApiUnprocessable

\* A started application over a Store that holds one Scenario and an empty
\* outbox.
InitServing ==
  /\ InitStored
  /\ outbox = <<>>

\* The API with at most MaxWrites Scenario writes started by it and by the
\* recovery loop together.
ApiWrites ==
  \/ MutationsStarted < MaxWrites /\ ApiRequests
  \/ ApiCreateEvent

\* The recovery loop under the same budget of Scenario writes.
RecoveryWrites ==
  \/ RecoveryTake
  \/ MutationsStarted < MaxWrites /\ RecoveryLaunch
  \/ RecoveryInitStartup
  \/ RecoveryInitStartupProcessing
  \/ RecoveryCreateEvent

\* One worker that is handed events of existing Scenarios; its frame can fail
\* to be read, its report reaches the recovery channel.
WorkerWrites ==
  \/ \E scenario_id \in DOMAIN scenarios :
       ScenariosDeliver([type |-> "event", scenario_id |-> scenario_id])
  \/ WorkerTake
  \/ WorkerReadFrameOk
  \/ WorkerReadFrameFail
  \/ WorkerPredictOk
  \/ WorkerSaveOk
  \/ WorkerActivateOk
  \/ WorkerReportOk

\* Every writer of table scenarios: API requests with any body, the
\* recovery loop and the worker.
NextStore ==
  \/ ApiWrites
  \/ RecoveryWrites
  \/ WorkerWrites

SpecStore == InitServing /\ [][NextStore]_vars

\* ------------------------------------------ the lifetime of a Scenario

\* The dispatch loop with publishes that succeed.
DispatchWrites ==
  \/ \E d \in Instances : DispatchPoll(d)
  \/ \E d \in Instances : DispatchSendOk(d)
  \/ \E d \in Instances : DispatchMark(d)

\* Orchestrator.stop step by step, then the end of lifespan.
ShutdownSteps ==
  \/ StopSignal
  \/ StopProducer
  \/ StopConnected
  \/ StopAllRunners
  \/ StopRemoveRunner
  \/ StopJoin
  \/ LifespanDisconnect

\* One worker that is handed events of the Scenario the Store holds from the
\* start.
WorkerRuns ==
  \/ ScenariosDeliver([type |-> "event", scenario_id |-> 1])
  \/ WorkerTake
  \/ WorkerReadFrameOk
  \/ WorkerReadFrameFail
  \/ WorkerPredictOk
  \/ WorkerSaveOk
  \/ WorkerActivateOk
  \/ WorkerReportOk

\* Valid API requests, at most MaxWrites Scenario writes started by them and
\* by the recovery loop together.
ApiValidWrites ==
  \/ /\ MutationsStarted < MaxWrites
     /\ \/ \E status \in ApiStatuses : ApiCreateScenario(status)
        \/ \E scenario_id \in 1..MaxScenarios,
              new_status \in ApiStatuses \ {None} :
             ApiUpdateScenarioStatus(scenario_id, new_status)
  \/ ApiCreateEvent

\* The application from the first request to the end of its shutdown: the
\* API, the dispatch loop, the recovery loop, one worker and the shutdown.
NextLifetime ==
  \/ ApiValidWrites
  \/ DispatchWrites
  \/ RecoveryWrites
  \/ WorkerRuns
  \/ ShutdownSteps

SpecLifetime == InitServing /\ [][NextLifetime]_vars

\* -------------------------------------------------- KafkaClient.send_message

\* The producer as send_message finds it: no object (before connect, after
\* disconnect), an object whose start() did not complete, a started producer.
ProducerState ==
  IF ~producer THEN "none"
  ELSE IF connected THEN "started" ELSE "unstarted"

\* What self.producer.send_and_wait(...) does: it returns, it raises a
\* KafkaError, or it raises something else (on no object the attribute
\* access itself raises).
SendAndWaitOutcomes(state) ==
  CASE state = "none" -> {"AttributeError"}
    [] state = "unstarted" -> {"KafkaError", "Exception"}
    [] OTHER -> {"ok", "KafkaError", "Exception"}

\* A send_message whose only except clause is the one for KafkaError.
SendMessage_KafkaErrorOnly(state, outcome) ==
  IF state = "none" THEN "false"
  ELSE CASE outcome = "ok" -> "true"
         [] outcome = "KafkaError" -> "false"
         [] OTHER -> "raised"

\* KafkaClient.send_message: False without a producer, True when
\* send_and_wait returns, False from either except clause.
SendMessage(state, outcome) ==
  IF state = "none" THEN "false"
  ELSE CASE outcome = "ok" -> "true"
         [] outcome = "KafkaError" -> "false"
         [] OTHER -> "false"

\* A call of send_message(topic = "scenarios") at any moment of the client's
\* life; a confirmed message is in the topic.
CallSendMessage(message) ==
  /\ Len(calls) < MaxCalls
  /\ Len(wtopic) < MaxMessages
  /\ \E outcome \in SendAndWaitOutcomes(ProducerState) :
       /\ calls' = Append(calls,
            [op |-> "send_message",
             arg |-> [producer |-> ProducerState, lifecycle |-> lifecycle],
             result |-> SendMessage(ProducerState, outcome),
             events |-> <<>>])
       /\ wtopic' = IF SendMessage(ProducerState, outcome) = "true"
                      THEN Append(wtopic, message) ELSE wtopic
  /\ UNCHANGED <<storeVars, now, lifecycle, running, kafkaVars, eventQueue,
                 api, dispatchVars, recoveryVars, poolVars, wpos, worker,
                 predicts, crashes>>

\* The client from its construction through connect (which can fail) and
\* disconnect to the end of the shutdown, with send_message called at any
\* point.
NextPublish ==
  \/ Start
  \/ StartConnectFail
  \/ ShutdownSteps
  \/ \E scenario_id \in 1..MaxScenarios :
       CallSendMessage([type |-> "event", scenario_id |-> scenario_id])

SpecPublish == Init /\ [][NextPublish]_vars

\* ------------------------------------------------- the shutdown sequence

\* The steps of the dispatch thread over a Store whose calls succeed: its
\* publishes can fail and are skipped once the client is disconnected.
DispatchThread ==
  \/ \E d \in Instances : DispatchPoll(d)
  \/ \E d \in Instances : DispatchExit(d)
  \/ \E d \in Instances : DispatchSkip(d)
  \/ \E d \in Instances : DispatchSendOk(d)
  \/ \E d \in Instances : DispatchSendFail(d)
  \/ \E d \in Instances : DispatchMark(d)

\* The steps of the recovery thread.
RecoveryThread ==
  \/ RecoveryStep
  \/ RecoveryExit

\* lifespan's shutdown beside the two loop threads; workers may still report
\* failures to the recovery channel.
NextStop ==
  \/ \E scenario_id \in 1..MaxScenarios, reason \in Reasons :
       RetryPublish(scenario_id, reason)
  \/ DispatchThread
  \/ RecoveryThread
  \/ ShutdownSteps

\* Each thread keeps taking the steps it can take, and so does the shutdown
\* once it has begun; whether a worker reports is up to the worker.
SpecStop ==
  /\ InitServing
  /\ [][NextStop]_vars
  /\ WF_vars(DispatchThread)
  /\ WF_vars(RecoveryThread)
  /\ WF_vars(StopProducer \/ StopConnected \/ StopAllRunners
               \/ StopRemoveRunner \/ StopJoin \/ LifespanDisconnect)

\* ------------------------------------- the recovery-channel subscription

\* The locals of _retry_consumer_loop while it creates its consumer: the
\* attempt in progress and the seconds slept so far.
Subscribing(attempt, slept) == [attempt |-> attempt, slept |-> slept]

\* Orchestrator.start as Start, followed up to the first statement of the
\* recovery thread: the consumer of the recovery channel is yet to be
\* created.
StartThreads ==
  /\ lifecycle = "constructed"
  /\ running = FALSE
  /\ lifecycle' = "running"
  /\ running' = TRUE
  /\ producer' = TRUE
  /\ connected' = TRUE
  /\ runners' = EnsurePoolSize(runners, live, nextRunner)
  /\ nextRunner' = nextRunner + Cardinality(runners' \ runners)
  /\ live' = live \cup (runners' \ runners)
  /\ dpc' = [d \in Instances |-> IF dpc[d] = "absent" THEN "absent" ELSE "idle"]
  /\ rpc' = "subscribing"
  /\ rmsg' = Subscribing(1, 0)
  /\ UNCHANGED <<storeVars, now, eventQueue, api, batch, cursor, iteration,
                 retryTopic, retryPos, stopIds, workerVars, crashes, calls>>

\* The entry of the call log for one create_consumer.
CreateConsumerCall(attempt, result) ==
  [op |-> "create_consumer", arg |-> attempt, result |-> result,
   events |-> <<>>]

\* create_consumer returns: break, and the loop starts consuming.
SubscribeOk ==
  /\ rpc = "subscribing"
  /\ calls' = Append(calls, CreateConsumerCall(rmsg.attempt, TRUE))
  /\ rpc' = "consuming"
  /\ rmsg' = <<>>
  /\ UNCHANGED <<storeVars, now, lifecycle, running, kafkaVars, eventQueue,
                 api, dispatchVars, retryTopic, retryPos, poolVars,
                 workerVars, crashes>>

\* A loop that sleeps and tries again after every failure.
SubscribeFail_Unbounded ==
  /\ rpc = "subscribing"
  /\ calls' = Append(calls, CreateConsumerCall(rmsg.attempt, FALSE))
  /\ rmsg' = Subscribing(rmsg.attempt + 1, rmsg.slept + retry_delay)
  /\ rpc' = rpc
  /\ UNCHANGED <<storeVars, now, lifecycle, running, kafkaVars, eventQueue,
                 api, dispatchVars, retryTopic, retryPos, poolVars,
                 workerVars, crashes>>

\* create_consumer raises: before the last attempt the loop sleeps
\* retry_delay seconds and tries again, after the last it returns.
SubscribeFail ==
  /\ rpc = "subscribing"
  /\ calls' = Append(calls, CreateConsumerCall(rmsg.attempt, FALSE))
  /\ IF rmsg.attempt < max_retries
       THEN /\ rmsg' = Subscribing(rmsg.attempt + 1,
                                   rmsg.slept + retry_delay)
            /\ rpc' = rpc
       ELSE /\ rmsg' = <<>>
            /\ rpc' = "exited"
  /\ UNCHANGED <<storeVars, now, lifecycle, running, kafkaVars, eventQueue,
                 api, dispatchVars, retryTopic, retryPos, poolVars,
                 workerVars, crashes>>

\* The recovery thread from its start: the subscription, then the messages
\* the workers report, while the application may be shut down at any moment
\* (the attempts do not look at the stop signal).
NextSubscribe ==
  \/ StartThreads
  \/ SubscribeOk
  \/ SubscribeFail
  \/ \E scenario_id \in 1..MaxScenarios, reason \in Reasons :
       RetryPublish(scenario_id, reason)
  \/ RecoveryStep
  \/ RecoveryExit
  \/ ShutdownSteps

SpecSubscribe == InitSupervisor /\ [][NextSubscribe]_vars

\* ------------------------------------------------- status transitions

\* API requests with any body over a Store whose Scenarios are in any of the
\* six statuses.
NextTransitions == ApiWrites

SpecTransitions == InitRecovery /\ [][NextTransitions]_vars

\* ------------------------------------- the registry under two threads

\* Orchestrator.stop, run by the main thread, beside the recovery thread:
\* stop_all_runners is called before the recovery thread is joined, so a
\* handler that took its message before the stop signal calls create_runner
\* while the runners are being removed.
NextRegistry ==
  \/ \E scenario_id \in 1..MaxScenarios, reason \in Reasons :
       RetryPublish(scenario_id, reason)
  \/ RecoveryStep
  \/ RecoveryExit
  \/ StopSignal
  \/ StopProducer
  \/ StopConnected
  \/ StopAllRunners
  \/ StopRemoveRunner
  \/ StopJoin

SpecRegistry == InitRecovery /\ [][NextRegistry]_vars


\* ================================================================ claims

\* The rows of the outbox that describe the committed mutation m.
EventsDescribing(m) ==
  {i \in DOMAIN outbox :
     /\ outbox[i].event_type = m.event_type
     /\ outbox[i].scenario_id = m.scenario_id
     /\ outbox[i].event_data = m.event_data}

\* C1: atomic append.  In every reachable state in which no API call is in
\* the middle of its two writes (it returned, failed, or the process
\* crashed), every Scenario mutation committed by create_scenario /
\* update_scenario_status has its OutboxEvent in the Store (as many events
\* as mutations of that description), and there is no event without its
\* mutation.
C1_AtomicAppend ==
  api.pc = "idle" =>
  /\ \A m \in BagToSet(mutations) :
       m.event_type \in {"scenario_created", "scenario_status_updated"}
         => Cardinality(EventsDescribing(m)) = CopiesIn(m, mutations)
  /\ \A i \in DOMAIN outbox :
       BagIn(Mutation(outbox[i].scenario_id, outbox[i].event_type,
                      outbox[i].event_data), mutations)

\* C2: when create_event fails inside create_scenario /
\* update_scenario_status, the Scenario mutation of the call is rolled back:
\* the created row is gone, the updated row has its former status.
C2_AppendFailureRollsBack ==
  [][ApiCreateEventFail =>
       IF api.op = "create"
         THEN api.scenario_id \notin DOMAIN scenarios'
         ELSE scenarios'[api.scenario_id].status = api.prior]_vars

\* C3: in every reachable state in which _handle_retry_message is not in the
\* middle of a message (it returned, failed, or the process crashed), every
\* reset it has written has its scenario_restarted OutboxEvent in the Store.
C3_ResetHasRestartedEvent ==
  rpc \notin {"reset1", "reset2", "append"} =>
  \A m \in BagToSet(mutations) :
    m.event_type = "scenario_restarted" => EventsDescribing(m) # {}


\* C4: an OutboxEvent is created unprocessed, becomes processed only by the
\* dispatch loop's mark step, is processed only if the broker confirmed a
\* publish of that event, and never returns to unprocessed.
C4_ProcessedOnlyAfterConfirmedPublish ==
  [][/\ \A i \in DOMAIN outbox' : outbox'[i].processed => published'[i] >= 1
     /\ \A i \in DOMAIN outbox : outbox[i].processed => outbox'[i].processed
     /\ \A i \in DOMAIN outbox' :
          i \notin DOMAIN outbox => ~outbox'[i].processed
     /\ (\E i \in DOMAIN outbox : ~outbox[i].processed /\ outbox'[i].processed)
          => \E d \in Instances : DispatchMark(d)]_vars

\* C4 witness: an event was published, confirmed and marked while another
\* one is still unprocessed.
C4_Witness ==
  /\ \E i \in DOMAIN outbox : outbox[i].processed /\ published[i] = 1
  /\ \E i \in DOMAIN outbox : ~outbox[i].processed

\* Whole iterations of the dispatch loop of instance d finished so far.
CompletedIterations(d) ==
  IF dpc[d] = "idle" THEN iteration[d] ELSE iteration[d] - 1

\* C5: starting from n unprocessed events, with a reachable broker and no
\* appends, no event is unprocessed once n iterations have been completed.
C5_DrainsWithinNIterations ==
  \A n \in 0..MaxRows :
    (Cardinality({i \in DOMAIN outbox : ~outbox[i].processed}) = n)
      => [](CompletedIterations(1) >= n
              => \A i \in DOMAIN outbox : outbox[i].processed)

\* C5 witness: the last of two polled events has been published and is about
\* to be marked, the other one was marked in the same iteration.
C5_Witness ==
  /\ dpc[1] = "mark"
  /\ iteration[1] = 1
  /\ Len(batch[1]) = 2
  /\ cursor[1] = 2
  /\ outbox[batch[1][1].id].processed
  /\ ~outbox[batch[1][2].id].processed

\* C6: a failed publish leaves the event unprocessed and unpublished, goes
\* on without a mark and without a second send; and every poll of the
\* loop returns every unprocessed event (within the batch limit), so the
\* event is attempted again.
C6_FailedPublishLeavesUnprocessed ==
  [][\A d \in Instances :
       /\ DispatchSendFail(d) =>
            /\ ~outbox'[batch[d][cursor[d]].id].processed
            /\ outbox' = outbox
            /\ published' = published
            /\ dpc'[d] # "mark"
            /\ dpc'[d] = "send" => cursor'[d] = cursor[d] + 1
       /\ DispatchPoll(d) =>
            \A i \in DOMAIN outbox :
              (/\ ~outbox[i].processed
               /\ Cardinality({j \in DOMAIN outbox : ~outbox[j].processed})
                    <= OutboxBatchLimit)
                => \E k \in DOMAIN batch'[d] : batch'[d][k].id = i]_vars

\* C6 witness: in its second iteration the connected loop is at an event
\* that no publish has reached, although it was in the Store before the
\* first iteration's events were handled.
C6_Witness ==
  /\ connected
  /\ iteration[1] = 2
  /\ dpc[1] = "send"
  /\ cursor[1] = 2
  /\ published[batch[1][1].id] = 0
  /\ ~outbox[batch[1][1].id].processed

\* C7: two calls of mark_as_processed with the same existing event id leave
\* the event processed and the second call returns True.
C7_MarkTwiceIsIdempotent ==
  \A i, j \in DOMAIN calls :
    (/\ i < j
     /\ calls[i].op = "mark_as_processed"
     /\ calls[j].op = "mark_as_processed"
     /\ calls[i].arg = calls[j].arg
     /\ calls[i].arg \in DOMAIN outbox)
      => /\ calls[j].result = TRUE
         /\ outbox[calls[j].arg].processed

\* C7 witness: the second of two marks of one event has returned.
C7_Witness ==
  /\ Len(calls) = 2
  /\ calls[1].op = "mark_as_processed"
  /\ calls[2].op = "mark_as_processed"
  /\ calls[1].arg = calls[2].arg
  /\ calls[1].arg \in DOMAIN outbox

\* C8: mark_as_processed with an id that no row has returns False and
\* changes no row.
C8_MarkUnknownIdFails ==
  [][(/\ Len(calls') = Len(calls) + 1
      /\ calls'[Len(calls')].op = "mark_as_processed"
      /\ \A i \in DOMAIN outbox : outbox[i].id # calls'[Len(calls')].arg)
       => /\ calls'[Len(calls')].result = FALSE
          /\ outbox' = outbox]_vars

\* C8 witness: a mark of an unknown id has returned, over a table that holds
\* an unprocessed row.
C8_Witness ==
  /\ calls # <<>>
  /\ calls[Len(calls)].op = "mark_as_processed"
  /\ calls[Len(calls)].arg \notin DOMAIN outbox
  /\ \E i \in DOMAIN outbox : ~outbox[i].processed

\* C9: get_unprocessed_events(limit) returns min(limit, number of
\* unprocessed rows) distinct rows of the table, all unprocessed, in
\* non-decreasing created_at, none of them newer than an unprocessed row it
\* left out; the table is unchanged by the call.
C9_PollOldestFirst ==
  [][(/\ Len(calls') = Len(calls) + 1
      /\ calls'[Len(calls')].op = "get_unprocessed_events") =>
         LET limit == calls'[Len(calls')].arg
             r == calls'[Len(calls')].events
             u == {i \in DOMAIN outbox : ~outbox[i].processed}
         IN /\ Len(r) = IF limit < Cardinality(u) THEN limit ELSE Cardinality(u)
            /\ \A k \in DOMAIN r : r[k].id \in u /\ r[k] = outbox[r[k].id]
            /\ \A k, l \in DOMAIN r : k # l => r[k].id # r[l].id
            /\ \A k, l \in DOMAIN r : k < l => r[k].created_at <= r[l].created_at
            /\ \A k \in DOMAIN r : \A i \in u :
                 (\A l \in DOMAIN r : r[l].id # i)
                   => r[k].created_at <= outbox[i].created_at
            /\ outbox' = outbox]_vars

\* C9 witness: a poll with a limit below the number of unprocessed rows has
\* returned, the newer unprocessed row has the smaller id, and the table
\* also holds a processed row.
C9_Witness ==
  /\ calls # <<>>
  /\ calls[Len(calls)].op = "get_unprocessed_events"
  /\ Len(calls[Len(calls)].events) = calls[Len(calls)].arg
  /\ calls[Len(calls)].arg >= 1
  /\ \E i, j \in DOMAIN outbox :
       /\ i < j
       /\ ~outbox[i].processed /\ ~outbox[j].processed
       /\ outbox[i].created_at > outbox[j].created_at
       /\ \A k \in DOMAIN calls[Len(calls)].events :
            calls[Len(calls)].events[k].id # i
  /\ \E i \in DOMAIN outbox : outbox[i].processed

\* C10: with one dispatch loop, a processed event is terminal: no step
\* publishes it again or changes its row.
C10_ProcessedIsTerminal ==
  [][\A i \in DOMAIN outbox :
       outbox[i].processed
         => outbox'[i] = outbox[i] /\ published'[i] = published[i]]_vars

\* C10 witness: the loop handles an event in its second iteration while an
\* event processed earlier is in the Store.
C10_Witness ==
  /\ iteration[1] = 2
  /\ dpc[1] \in {"send", "mark"}
  /\ \E i \in DOMAIN outbox : outbox[i].processed /\ published[i] = 1

\* C11: with a single dispatch loop no OutboxEvent is published to the broker
\* with success more than once, also when the mark_as_processed that follows
\* a confirmed publish fails.
C11_PublishedAtMostOnce ==
  \A i \in DOMAIN published : published[i] <= 1

\* The deliveries of the recovery channel that reference scenario_id.
Deliveries(scenario_id) ==
  {i \in DOMAIN retryTopic : retryTopic[i].scenario_id = scenario_id}

\* The recovery loop has handled every delivery and is waiting for the next.
RecoveryQuiescent ==
  rpc = "consuming" /\ retryPos = Len(retryTopic)

\* C12: once the recovery loop has handled every delivery, also when a
\* message was delivered twice, each existing Scenario a delivery referenced
\* has status init_startup_processing (never init_startup), and the runners
\* launched beyond the pool are at most one per delivery: at most two for a
\* message delivered twice.
C12_RecoveryIdempotent ==
  RecoveryQuiescent =>
    /\ \A scenario_id \in DOMAIN scenarios :
         Deliveries(scenario_id) # {} =>
           scenarios[scenario_id].status = INIT_STARTUP_PROCESSING
    /\ Cardinality(runners \ (1..PoolSize)) <= Len(retryTopic)
    /\ nextRunner - PoolSize <= Len(retryTopic)

\* The same message for the existing Scenario was delivered twice and both
\* deliveries were handled to the end.
C12_Witness ==
  /\ RecoveryQuiescent
  /\ \E i, j \in Deliveries(1) : i < j /\ retryTopic[i] = retryTopic[j]
  /\ Len(outbox) = 2
  /\ Cardinality(runners) = PoolSize + 2
  /\ scenarios[1].status = INIT_STARTUP_PROCESSING

\* The deliveries that reference an existing Scenario, in delivery order.
RECURSIVE Recoverable(_)
Recoverable(n) ==
  IF n = 0 THEN <<>>
  ELSE IF retryTopic[n].scenario_id \in DOMAIN scenarios
         THEN Append(Recoverable(n - 1), retryTopic[n])
         ELSE Recoverable(n - 1)

\* One step of the recovery loop is the next step of the handler's order:
\* a delivery for an existing Scenario is taken by launching one runner and
\* nothing else; the status is then written init_startup, then
\* init_startup_processing; then one row is appended to the outbox.
C13_StepsInOrder ==
  /\ rpc' # rpc =>
       <<rpc, rpc'>> \in {<<"consuming", "lookup">>, <<"lookup", "consuming">>,
                          <<"lookup", "reset1">>, <<"reset1", "reset2">>,
                          <<"reset2", "append">>, <<"append", "consuming">>}
  /\ (rpc = "consuming" /\ rpc' = "lookup") =>
       /\ retryPos' = retryPos + 1
       /\ rmsg'.message = retryTopic[retryPos']
       /\ scenarios' = scenarios /\ runners' = runners /\ outbox' = outbox
  /\ (rpc = "lookup" /\ rmsg.message.scenario_id \in DOMAIN scenarios) =>
       rpc' \in {"lookup", "reset1"}
  /\ (rpc = "lookup" /\ rpc' = "reset1") =>
       /\ rmsg'.message = rmsg.message
       /\ nextRunner' \notin runners
       /\ runners' = runners \cup {nextRunner'}
       /\ rmsg'.new_runner_id = nextRunner'
       /\ scenarios' = scenarios /\ outbox' = outbox
  /\ (rpc = "reset1" /\ rpc' = "reset2") =>
       /\ scenarios' = [scenarios EXCEPT
                          ![rmsg.message.scenario_id].status = INIT_STARTUP]
       /\ runners' = runners /\ outbox' = outbox
  /\ (rpc = "reset2" /\ rpc' = "append") =>
       /\ scenarios[rmsg.message.scenario_id].status = INIT_STARTUP
       /\ scenarios' = [scenarios EXCEPT
                          ![rmsg.message.scenario_id].status =
                            INIT_STARTUP_PROCESSING]
       /\ runners' = runners /\ outbox' = outbox
  /\ (rpc = "append" /\ rpc' = "consuming") =>
       /\ scenarios[rmsg.message.scenario_id].status = INIT_STARTUP_PROCESSING
       /\ Len(outbox') = Len(outbox) + 1
       /\ SubSeq(outbox', 1, Len(outbox)) = outbox
       /\ scenarios' = scenarios /\ runners' = runners
  /\ (rpc' = rpc) =>
       scenarios' = scenarios /\ runners' = runners /\ outbox' = outbox

\* Once the loop has handled every delivery, the k-th delivery for an
\* existing Scenario has the k-th row of the outbox: an unprocessed
\* scenario_restarted event on topic scenarios naming the k-th runner launched
\* beyond the pool, the reason and the event payload of the message.
C13_OneEventPerMessage ==
  RecoveryQuiescent =>
    LET handled == Recoverable(Len(retryTopic)) IN
      /\ Len(outbox) = Len(handled)
      /\ runners = 1..(PoolSize + Len(handled))
      /\ \A k \in DOMAIN handled :
           /\ outbox[k].event_type = "scenario_restarted"
           /\ outbox[k].topic = "scenarios"
           /\ outbox[k].processed = FALSE
           /\ outbox[k].scenario_id = handled[k].scenario_id
           /\ outbox[k].event_data.scenario_id = handled[k].scenario_id
           /\ outbox[k].event_data.new_runner_id = PoolSize + k
           /\ outbox[k].event_data.reason = handled[k].reason
           /\ outbox[k].event_data.original_event = handled[k].event_data

\* C13: for each recovery message that references an existing Scenario the
\* recovery loop launches one runner, then writes init_startup, then writes
\* init_startup_processing, then appends one unprocessed scenario_restarted
\* event on topic scenarios whose payload carries the id of the runner just
\* launched, the reason of the message and its original event payload.
C13_RecoveryStepsInOrder ==
  [][C13_StepsInOrder]_vars /\ []C13_OneEventPerMessage

\* A message for an existing Scenario was handled to the end.
C13_Witness ==
  /\ RecoveryQuiescent
  /\ Deliveries(1) # {}
  /\ Len(outbox) >= 1
  /\ outbox[1].event_type = "scenario_restarted"
  /\ outbox[1].event_data.new_runner_id = PoolSize + 1
  /\ PoolSize + 1 \in runners

\* C14: taking a recovery message and, when its scenario_id references no
\* existing Scenario, leaving its handler launch no runner, write no
\* Scenario and append no OutboxEvent, and the loop is left waiting for the
\* next message.
C14_MissingScenarioDropped ==
  [][(\/ rpc = "consuming" /\ rpc' # rpc
      \/ rpc = "lookup" /\ rpc' # rpc
           /\ rmsg.message.scenario_id \notin DOMAIN scenarios)
     => /\ scenarios' = scenarios
        /\ outbox' = outbox
        /\ mutations' = mutations
        /\ runners' = runners
        /\ nextRunner' = nextRunner
        /\ live' = live
        /\ rpc = "lookup" => rpc' = "consuming" /\ running']_vars

\* A message for a missing Scenario was dropped and the loop went on to take
\* the message after it.
C14_Witness ==
  /\ retryPos >= 2
  /\ retryTopic[1].scenario_id \notin DOMAIN scenarios
  /\ outbox = <<>>
  /\ runners = 1..PoolSize

\* C15: after the recovery loop has written init_startup for a Scenario, the
\* next write that changes the status of that Scenario is the recovery
\* loop's own init_startup_processing: no write of an API update call or of
\* a worker comes between the two.
C15_RecoveryTransitionUninterrupted ==
  [][(/\ rpc = "reset2"
      /\ scenarios'[rmsg.message.scenario_id] #
           scenarios[rmsg.message.scenario_id])
     => /\ rpc' = "append"
        /\ scenarios'[rmsg.message.scenario_id].status =
             INIT_STARTUP_PROCESSING]_vars

\* The step is a call of ensure_pool_size.
EnsurePoolSizeCalled ==
  /\ Len(calls') = Len(calls) + 1
  /\ calls'[Len(calls')].op = "ensure_pool_size"

\* C16 as stated: a call of ensure_pool_size made when the process of a
\* tracked runner has exited removes that entry and leaves exactly PoolSize
\* tracked runners.
C16_ReconcileRestoresPoolSize ==
  [][(EnsurePoolSizeCalled /\ runners \ live # {})
     => /\ runners' \cap (runners \ live) = {}
        /\ Cardinality(runners') = PoolSize]_vars

\* C16, amended: a call of ensure_pool_size made when the process of a
\* tracked runner has exited removes every such entry, keeps every tracked
\* runner whose process is alive, and launches replacements only up to the
\* pool size: the tracked count becomes the larger of PoolSize and the number
\* of live tracked runners, so it equals PoolSize when at most PoolSize
\* tracked runners were alive.
C16_ReconcileTopsUpPool ==
  [][(EnsurePoolSizeCalled /\ runners \ live # {})
     => LET alive == runners \cap live IN
          /\ runners' \cap (runners \ live) = {}
          /\ alive \subseteq runners'
          /\ runners' \subseteq live'
          /\ (runners' \ alive) \cap runners = {}
          /\ Cardinality(runners') =
               IF Cardinality(alive) < PoolSize THEN PoolSize
                                                ELSE Cardinality(alive)]_vars

\* ensure_pool_size was called with a dead entry among fewer than PoolSize
\* live ones: the dead entry is gone and a replacement was launched.
C16_Witness ==
  /\ calls # <<>>
  /\ calls[Len(calls)].op = "ensure_pool_size"
  /\ \E dead \in 1..PoolSize : dead \notin runners /\ dead \notin live
  /\ PoolSize + 1 \in runners
  /\ Cardinality(runners) = PoolSize

\* C17: in a running orchestrator, whenever fewer than PoolSize tracked
\* runner processes are alive, replacements are eventually launched and the
\* number of live tracked runners is PoolSize or more again, also when the
\* exit was not reported on the recovery channel.
C17_DeadRunnerEventuallyReplaced ==
  (lifecycle = "running" /\ Cardinality(runners \cap live) < PoolSize)
    ~> (Cardinality(runners \cap live) >= PoolSize)

StatusRank(status) ==
  CHOOSE k \in 1..6 :
    <<INIT_STARTUP, INIT_STARTUP_PROCESSING, ACTIVE, INIT_SHUTDOWN,
      IN_SHUTDOWN_PROCESSING, INACTIVE>>[k] = status

\* C19: a status write of the worker never moves a Scenario backward in the
\* order of the six statuses: the worker never writes active over
\* init_shutdown, in_shutdown_processing or inactive.
C19_WorkerWritesForward ==
  [][worker.pc = "activate" =>
       \A id \in DOMAIN scenarios :
         StatusRank(scenarios'[id].status) >= StatusRank(scenarios[id].status)
    ]_vars

\* C20: when process_scenario has returned failure, a recovery message of
\* this worker for that scenario is on retry_topic and the worker has left
\* its loop: it takes no further message.
C20_FailureReportedThenExit ==
  worker.result = "failure" =>
    /\ worker.pc = "exited"
    /\ WorkerId \notin live
    /\ \E i \in DOMAIN retryTopic :
         /\ retryTopic[i].scenario_id = worker.scenario_id
         /\ retryTopic[i].reason = worker.reason
         /\ retryTopic[i].event_data.runner_id = WorkerId

\* The rows of the outbox that record a restart of scenario_id.
RestartedRows(scenario_id) ==
  {k \in DOMAIN outbox : /\ outbox[k].event_type = "scenario_restarted"
                         /\ outbox[k].scenario_id = scenario_id}

\* C21: once process_scenario has failed for an existing Scenario, a recovery
\* message of the worker is on the recovery channel; and once the recovery
\* loop has handled every message of the channel, the Scenario has gone
\* through init_startup to init_startup_processing and a scenario_restarted
\* event is in the outbox whose runner id is tracked, is not the id of the
\* failed runner and is the id of no other restart.
C21_FailureIsRecovered ==
  (worker.result = "failure" /\ worker.scenario_id \in DOMAIN scenarios) =>
    /\ \E i \in DOMAIN retryTopic :
         retryTopic[i].scenario_id = worker.scenario_id
    /\ RecoveryQuiescent =>
         /\ scenarios[worker.scenario_id].status = INIT_STARTUP_PROCESSING
         /\ \E k \in RestartedRows(worker.scenario_id) :
              /\ outbox[k].event_data.new_runner_id \in runners \ {WorkerId}
              /\ outbox[k].event_data.original_event.runner_id = WorkerId
              /\ \A l \in DOMAIN outbox \ {k} :
                   outbox[l].event_data.new_runner_id #
                     outbox[k].event_data.new_runner_id

\* C22: in every reachable state the status of every Scenario is one of the
\* six values of the enumeration, whatever create, update, worker and
\* recovery operations came before.
C22_StatusInEnumeration ==
  \A id \in DOMAIN scenarios : scenarios[id].status \in ScenarioStatus

\* A Scenario carries a status written by an update or by the recovery loop,
\* and a request whose status is none of the six was turned away.
C22_Witness ==
  /\ Len(scenarios) >= 1
  /\ \E id \in DOMAIN scenarios :
       scenarios[id].status \in {INIT_STARTUP_PROCESSING, INACTIVE}
  /\ api.result = "unprocessable"

\* C23: no step of the API, the dispatch loop, the recovery loop, the worker
\* or the shutdown removes a Scenario: every id in the Store before the step
\* is in the Store after it, so the row an id names is never deleted and
\* never comes to carry another id.
C23_ScenarioNeverDeleted ==
  [][\A id \in DOMAIN scenarios : id \in DOMAIN scenarios']_vars

\* The shutdown has completed after a Scenario write, a dispatched event and
\* a worker run.
C23_Witness ==
  /\ lifecycle = "closed"
  /\ BagCardinality(mutations) >= 1
  /\ \E k \in DOMAIN outbox : outbox[k].processed
  /\ worker.result # "none"
  /\ scenarios # <<>>

\* The create requests whose step is the one from the current state to the
\* next.
C24_CreateTaken(status) ==
  /\ ScenarioCreate(status)
  /\ ApiCreateScenario(status)

\* C24: a create_scenario without status adds a Scenario with status
\* init_startup under a new id, one with a status adds a Scenario with
\* exactly that status; every scenario_created event of the outbox names the
\* id and the status its Scenario was created with.
C24_CreatedStatusAndEvent ==
  /\ [][\A status \in RequestStatuses :
          C24_CreateTaken(status) =>
            /\ DOMAIN scenarios' = DOMAIN scenarios \cup {Len(scenarios) + 1}
            /\ scenarios'[Len(scenarios) + 1].status =
                 (IF status = None THEN INIT_STARTUP ELSE status)
            /\ BagIn(Mutation(Len(scenarios) + 1, "scenario_created",
                              [scenario_id |-> Len(scenarios) + 1,
                               status |-> scenarios'[Len(scenarios) + 1].status]),
                     mutations')]_vars
  /\ [](\A k \in DOMAIN outbox :
          outbox[k].event_type = "scenario_created" =>
            /\ outbox[k].scenario_id \in DOMAIN scenarios
            /\ outbox[k].event_data.scenario_id = outbox[k].scenario_id
            /\ BagIn(Mutation(outbox[k].scenario_id, "scenario_created",
                              outbox[k].event_data), mutations))

\* A Scenario created with a supplied status other than the default, and its
\* scenario_created event in the outbox.
C24_Witness ==
  \E k \in DOMAIN outbox :
    /\ outbox[k].event_type = "scenario_created"
    /\ outbox[k].event_data.status = INACTIVE
    /\ outbox[k].scenario_id = Len(scenarios)
    /\ scenarios[outbox[k].scenario_id].status = INACTIVE

\* The valid update requests for an id the Store does not hold whose step is
\* the one from the current state to the next.
C25_UpdateOfMissingTaken(scenario_id, status) ==
  /\ ScenarioUpdate(status)
  /\ scenario_id \notin DOMAIN scenarios
  /\ ApiUpdateScenarioStatus(scenario_id, status)

\* C25: update_scenario_status for an id that is not in the Store answers
\* not-found and changes nothing: no Scenario row, no OutboxEvent, no
\* command on the in-process queue, no call left in flight.
C25_UpdateOfMissingHasNoEffect ==
  [][\A scenario_id \in 1..MaxScenarios, status \in RequestStatuses :
       C25_UpdateOfMissingTaken(scenario_id, status) =>
         /\ api'.result = "not_found"
         /\ api'.pc = "idle"
         /\ UNCHANGED <<scenarios, outbox, published, mutations, eventQueue,
                        predicts>>]_vars

\* An update of a missing Scenario was answered not-found while the API and
\* the worker had written before.
C25_Witness ==
  /\ api.result = "not_found"
  /\ Len(scenarios) < MaxScenarios
  /\ worker.result = "success"

\* The steps of instance d at which a call of the iteration fails.
C26_IterationFails(d) ==
  \/ DispatchPollFail(d)
  \/ DispatchSendFail(d)
  \/ DispatchMarkFail(d)

\* C26: the dispatch loop has ended only if the running flag is cleared; a
\* failed poll, publish or mark leaves the loop at its next event or at its
\* next iteration and changes no event, and the next poll returns every
\* event that is still unprocessed.
C26_LoopSurvivesIterationFailure ==
  /\ [](\A d \in Instances : dpc[d] = "exited" => ~running)
  /\ [][\A d \in Instances :
          C26_IterationFails(d) =>
            /\ dpc'[d] \in {"idle", "send"}
            /\ outbox' = outbox]_vars
  /\ [][\A d \in Instances :
          DispatchPoll(d) =>
            \A k \in DOMAIN outbox :
              (~outbox[k].processed /\ Len(outbox) <= OutboxBatchLimit) =>
                \E i \in DOMAIN batch'[d] : batch'[d][i].id = k]_vars

\* A later iteration of the running loop handles again an event that was
\* published in an earlier one and whose mark failed.
C26_Witness ==
  \E d \in Instances :
    /\ running
    /\ iteration[d] >= 2
    /\ dpc[d] = "send"
    /\ published[batch[d][cursor[d]].id] >= 1
    /\ ~outbox[batch[d][cursor[d]].id].processed

\* C27: every call of send_message has returned true or false, none has
\* raised; a call that found no producer or a producer that was not started
\* has returned false.
C27_SendMessageNeverRaises ==
  \A i \in DOMAIN calls :
    calls[i].op = "send_message" =>
      /\ calls[i].result \in {"true", "false"}
      /\ calls[i].arg.producer # "started" => calls[i].result = "false"

\* send_message was called before connect and again after disconnect.
C27_Witness ==
  /\ Len(calls) = 2
  /\ calls[1].op = "send_message"
  /\ calls[1].arg.lifecycle = "constructed"
  /\ calls[2].arg.lifecycle \in {"stop_runners", "stop_remove", "stopped",
                                 "closed"}
  /\ calls[2].arg.producer = "none"

\* Both loops have left their cycle.
LoopsExited ==
  /\ \A d \in Instances : dpc[d] \in {"exited", "absent"}
  /\ rpc = "exited"

\* C28: once the stop signal is set, the dispatch loop and the recovery loop
\* both leave their cycle, whether or not a further message arrives on the
\* recovery channel.
C28_LoopsExitAfterStopSignal ==
  (lifecycle # "running" /\ ~running) ~> LoopsExited

\* Orchestrator.stop has executed its two join statements.
ThreadsJoined == lifecycle \in {"stopped", "closed"}

\* C29: while stop_all_runners runs, the dispatch thread and the recovery
\* thread have been joined.
C29_RunnersStoppedAfterJoin ==
  lifecycle = "stop_remove" => ThreadsJoined

\* A loop is between the calls of one unit of Store work: the dispatch loop
\* is about to mark the event it has published, the recovery handler is
\* between its lookup and the commit of its event.
LoopInTransaction ==
  \/ \E d \in Instances : dpc[d] = "mark"
  \/ rpc \in {"lookup", "reset1", "reset2", "append"}

\* C30: once the Store is closed no loop is in the middle of its Store work,
\* so none operates on the Store afterwards.
C30_StoreClosedAfterLoops ==
  lifecycle = "closed" => ~LoopInTransaction

\* The attempts of create_consumer made so far with the given result.
SubscribeAttempts(result) ==
  {i \in DOMAIN calls :
     calls[i].op = "create_consumer" /\ calls[i].result = result}

\* C31: create_consumer is attempted at most max_retries times, with
\* retry_delay seconds between two attempts; after the last failed attempt
\* the recovery loop has exited, has handled no message and never runs
\* again; after a successful attempt no further one is made and the loop
\* consumes.
C31_SubscriptionRetriedBounded ==
  /\ [](/\ Len(calls) <= max_retries
        /\ \A i \in DOMAIN calls : calls[i].arg = i
        /\ \A i \in SubscribeAttempts(TRUE) : i = Len(calls)
        /\ rpc = "subscribing" =>
             /\ SubscribeAttempts(TRUE) = {}
             /\ rmsg.attempt = Len(calls) + 1
             /\ rmsg.attempt <= max_retries
             /\ rmsg.slept = retry_delay * Len(calls)
        /\ Cardinality(SubscribeAttempts(FALSE)) = max_retries =>
             /\ rpc = "exited"
             /\ retryPos = 0
             /\ outbox = <<>>
        /\ (lifecycle = "running" /\ SubscribeAttempts(TRUE) # {}) =>
             rpc \notin {"subscribing", "exited"})
  /\ [][rpc = "exited" => rpc' = "exited"]_vars

\* Every attempt has failed and the loop is gone while a report waits on the
\* recovery channel.
C31_Witness ==
  /\ Cardinality(SubscribeAttempts(FALSE)) = max_retries
  /\ rpc = "exited"
  /\ retryTopic # <<>>

\* The step is a call of remove_runner(runner_id).
C32_RemoveRunnerCalled(runner_id) ==
  /\ Len(calls') = Len(calls) + 1
  /\ calls'[Len(calls')].op = "remove_runner"
  /\ calls'[Len(calls')].arg = runner_id

\* C32: remove_runner of a tracked id returns True, deletes exactly that id
\* and leaves its process not running: a process that ran was sent
\* terminate() first and kill() only after it, one that had exited was sent
\* nothing; remove_runner of an untracked id returns False and changes
\* neither the registry nor any process.
C32_RemoveRunnerStopsAndDeregisters ==
  [][\A runner_id \in 1..(PoolSize + MaxLaunches + 1) :
       C32_RemoveRunnerCalled(runner_id) =>
         LET call == calls'[Len(calls')] IN
           IF runner_id \in runners
             THEN /\ call.result = TRUE
                  /\ runners' = runners \ {runner_id}
                  /\ live' = live \ {runner_id}
                  /\ runner_id \in live =>
                       /\ call.events # <<>>
                       /\ call.events[1] = "terminate"
                       /\ \A i \in DOMAIN call.events :
                            call.events[i] = "kill" => i = 2
                  /\ runner_id \notin live => call.events = <<>>
             ELSE /\ call.result = FALSE
                  /\ call.events = <<>>
                  /\ UNCHANGED <<runners, live>>]_vars

\* A running process outlasted the grace period and was killed, and a call
\* for an id that is not tracked failed.
C32_Witness ==
  /\ Len(calls) = 2
  /\ calls[1].op = "remove_runner"
  /\ calls[1].events = <<"terminate", "kill">>
  /\ calls[1].arg \notin runners \cup live
  /\ calls[2].result = FALSE

\* C33: once Orchestrator.stop has completed the registry is empty and no
\* runner process launched by this orchestrator is running.
C33_NoRunnerLeftAfterStop ==
  lifecycle \in {"stopped", "closed"} => (runners = {} /\ live = {})

\* The step is one of an API call: the call in flight or the last response
\* changes.
C34_ApiStep == api' # api

\* C34: no step of create_scenario or update_scenario_status publishes to
\* the broker or touches the client; a call that has written its Scenario
\* can always go on to append its event, and it then answers success with
\* the Scenario write and the event committed, whatever the publishes of the
\* dispatch loop did meanwhile.
C34_BrokerFailureNotSurfaced ==
  /\ [][C34_ApiStep =>
          /\ \A k \in DOMAIN published : published'[k] = published[k]
          /\ \A k \in DOMAIN published' \ DOMAIN published :
               published'[k] = 0
          /\ UNCHANGED kafkaVars
          /\ api'.pc = "idle" =>
               /\ api'.result \in {"ok", "not_found"}
               /\ api'.result = "ok" =>
                    /\ Len(outbox') = Len(outbox) + 1
                    /\ outbox'[Len(outbox')].scenario_id = api.scenario_id
                    /\ api.scenario_id \in DOMAIN scenarios'
                    /\ BagCardinality(mutations') >= Len(outbox')]_vars
  /\ [](api.pc = "append" => ENABLED ApiCreateEvent)

\* Two API calls have answered success; the publish of the first one's
\* event failed in the batch in which the second one's event went out.
C34_Witness ==
  /\ api.result = "ok"
  /\ Len(outbox) = 2
  /\ ~outbox[1].processed
  /\ published[1] = 0
  /\ outbox[2].processed

\* The valid update requests for a Scenario of the Store whose step is the
\* one from the current state to the next.
C35_UpdateOfExistingTaken(scenario_id, status) ==
  /\ ScenarioUpdate(status)
  /\ scenario_id \in DOMAIN scenarios
  /\ ApiUpdateScenarioStatus(scenario_id, status)

\* C35: update_scenario_status of an existing Scenario with any of the six
\* statuses sets the status of that Scenario to the requested value,
\* whatever it was before, changes no other Scenario and answers success.
C35_AnyTransitionAccepted ==
  /\ [][\A scenario_id \in 1..MaxScenarios, status \in RequestStatuses :
          C35_UpdateOfExistingTaken(scenario_id, status) =>
            /\ scenarios'[scenario_id].status = status
            /\ \A other \in DOMAIN scenarios \ {scenario_id} :
                 scenarios'[other] = scenarios[other]
            /\ DOMAIN scenarios' = DOMAIN scenarios
            /\ api'.pc = "append"]_vars
  /\ [][(api.pc = "append" /\ api.op = "update" /\ api' # api) =>
          api'.result = "ok"]_vars
  /\ [](\A scenario_id \in DOMAIN scenarios, status \in ScenarioStatus :
          (api.pc = "idle" /\ MutationsStarted < MaxWrites) =>
            ENABLED ApiUpdateScenarioStatus(scenario_id, status))

\* An update has put a Scenario that was inactive back to init_startup and
\* is about to record its event and answer.
C35_Witness ==
  /\ api.pc = "append"
  /\ api.op = "update"
  /\ api.prior = INACTIVE
  /\ api.status = INIT_STARTUP
  /\ scenarios[api.scenario_id].status = INIT_STARTUP

\* The unprocessed events of the Scenario of the event instance d is sending
\* that were created before it.
C36_EarlierUnprocessed(d) ==
  {k \in DOMAIN outbox :
     /\ ~outbox[k].processed
     /\ outbox[k].scenario_id = batch[d][cursor[d]].scenario_id
     /\ outbox[k].created_at < batch[d][cursor[d]].created_at}

\* C36: the events of one Scenario are published in the order of their
\* creation: no publish of an event succeeds while an event of the same
\* Scenario that was created earlier is still unprocessed.
C36_PublishedInCreationOrder ==
  [][\A d \in Instances :
       DispatchSendOk(d) => C36_EarlierUnprocessed(d) = {}]_vars

\* The instances other than d that hold event k in their batch at or after
\* the event they are handling.
C37_HeldByOther(d, k) ==
  {o \in Instances \ {d} :
     /\ dpc[o] \in {"send", "mark"}
     /\ \E i \in cursor[o]..Len(batch[o]) : batch[o][i].id = k}

\* C37: nothing claims an outbox event for one dispatch loop: a poll changes
\* no row and returns every unprocessed event, also the events another
\* dispatch loop holds in its batch, and a dispatch loop that is about to
\* publish an event another loop is publishing or has published and not
\* yet marked can publish it.
C37_NoClaimingProtocol ==
  /\ [][\A d \in Instances :
          DispatchPoll(d) =>
            /\ outbox' = outbox
            /\ \A k \in Unprocessed(outbox) :
                 \E i \in DOMAIN batch'[d] : batch'[d][i].id = k]_vars
  /\ [](\A d \in Instances :
          (dpc[d] = "send" /\ C37_HeldByOther(d, batch[d][cursor[d]].id) # {})
            => ENABLED DispatchSendOk(d))

\* Both dispatch loops polled the same unprocessed event before either
\* marked it, and each has published it: the event is still unprocessed and
\* has been published twice.
C37_Witness ==
  \E k \in DOMAIN outbox :
    /\ published[k] = 2
    /\ ~outbox[k].processed
    /\ \A d \in Instances :
         /\ dpc[d] = "mark"
         /\ batch[d][cursor[d]].id = k
         /\ iteration[d] = 1

\* C38: a call of ensure_pool_size stops no process and removes no tracked
\* runner whose process is alive; what it removes are entries of exited
\* processes and what it adds are runners launched by it; with PoolSize or
\* more live tracked runners it launches nothing and keeps them all, so the
\* tracked count stays above PoolSize when it was.
C38_ReconcileOnlyRemovesExited ==
  [][EnsurePoolSizeCalled =>
       LET alive == runners \cap live IN
         /\ live \subseteq live'
         /\ alive \subseteq runners'
         /\ runners \ runners' = runners \ live
         /\ runners' \ runners = (nextRunner + 1)..nextRunner'
         /\ Cardinality(alive) >= PoolSize =>
              /\ runners' = alive
              /\ nextRunner' = nextRunner
              /\ live' = live]_vars

\* ensure_pool_size was called with more than PoolSize live tracked runners
\* and an exited one: the exited entry is gone, nothing was launched and
\* more than PoolSize runners are tracked.
C38_Witness ==
  /\ calls # <<>>
  /\ calls[Len(calls)].op = "ensure_pool_size"
  /\ Cardinality(runners) > PoolSize
  /\ runners \subseteq live
  /\ \E dead \in 1..nextRunner : dead \notin runners
  /\ nextRunner = PoolSize + MaxLaunches

\* process_scenario(scenario_id) has returned True in this worker: the loop
\* of KafkaWorker.run goes on to the next message only after a True, so
\* every event before the one in hand was processed successfully, and so
\* was the last one taken when the worker is waiting again.
C39_ProcessedSuccessfully(scenario_id) ==
  \E i \in 1..wpos :
    /\ wtopic[i].type = "event"
    /\ wtopic[i].scenario_id = scenario_id
    /\ i < wpos \/ worker.pc = "consuming"

\* The worker's write of status active takes effect on a Scenario whose
\* predict is populated.
C39_ActiveImpliesPredict ==
  (WorkerActivateOk /\ worker.scenario_id \in DOMAIN scenarios) =>
    /\ worker.scenario_id \in predicts
    /\ worker.scenario_id \in predicts'

\* predict of a Scenario is populated only if a worker has processed the
\* Scenario successfully, or has written it in the processing cycle it is
\* in and is about to set the status.
C39_PredictImpliesProcessed ==
  \A scenario_id \in DOMAIN scenarios :
    scenario_id \in predicts =>
      \/ C39_ProcessedSuccessfully(scenario_id)
      \/ worker.pc = "activate" /\ worker.scenario_id = scenario_id

\* C39: a worker sets the status of a Scenario to active only after it has
\* written predict of that Scenario in the same processing cycle, so predict
\* is populated whenever the worker's write makes the status active, and
\* predict of a Scenario stays absent until a worker has processed the
\* Scenario successfully.
C39_PredictWrittenBeforeActive ==
  /\ [][C39_ActiveImpliesPredict]_vars
  /\ [](\A scenario_id \in DOMAIN scenarios :
          (worker.pc = "activate" /\ worker.scenario_id = scenario_id) =>
            scenario_id \in predicts)
  /\ []C39_PredictImpliesProcessed

====
